---- MODULE Spec2Model ----
(***************************************************************************)
(* The API-call dispatch engine of bitlbee-steam (steam/steam-api.c):      *)
(* call contexts (SteamApiData), the response dispatcher steam_api_cb, the *)
(* per-type response parsers, the relogon-on-expiry path and the friend-   *)
(* summary batching, on top of a transport (steam-http) with a pausable    *)
(* FIFO request queue.                                                     *)
(***************************************************************************)
EXTENDS Integers, Sequences, FiniteSets, TLC

(* Bounds of the model. *)
MaxCalls  == 2      \* typed calls issued over one run (call contexts 1..MaxCalls)
MaxRounds == 4      \* summaries requests one call context may issue
IntWidth  == 12     \* bits of the integers that stand for gint64

(* Program constants. *)
SUMMARIES_MAX     == 100   \* identities per summaries request
STEAM_API_TIMEOUT == 30    \* requested long-poll timeout, the floor of sectimeout

Ctx == 1..MaxCalls

NULLSTR == "<NULL>"        \* a NULL gchar pointer
NULLID  == 0               \* a NULL steamid string
NOREQ   == <<0, 0>>        \* sata->req == NULL


(***************************************************************************)
(* GLib helpers.                                                           *)
(***************************************************************************)

\* ASCII case folding of the strings the protocol compares.
Fold(s) ==
    CASE s \in {"OK", "ok", "Ok"}                        -> "ok"
      [] s \in {"Timeout", "timeout", "TIMEOUT"}         -> "timeout"
      [] s \in {"Not Logged On", "not logged on"}        -> "not logged on"
      [] s \in {"friend", "Friend"}                      -> "friend"
      [] s \in {"ignoredfriend", "IgnoredFriend"}        -> "ignoredfriend"
      [] s \in {"saytext", "SayText"}                    -> "saytext"
      [] s \in {"personastate", "PersonaState"}          -> "personastate"
      [] s \in {"emote", "Emote"}                        -> "emote"
      [] s \in {"leftconversation", "LeftConversation"}  -> "leftconversation"
      [] s \in {"user", "User"}                          -> "user"
      [] s \in {"false", "False"}                        -> "false"
      [] OTHER                                           -> s

\* g_ascii_strcasecmp(a, b) == 0; a NULL argument makes the GLib
\* precondition check return 0.
g_ascii_strcasecmp_eq(a, b) ==
    \/ a = NULLSTR
    \/ b = NULLSTR
    \/ Fold(a) = Fold(b)

(***************************************************************************)
(* steam-json accessors.  A JSON object is a record holding the fields     *)
(* that are present with their expected JSON type.                         *)
(***************************************************************************)
JHas(json, name) == name \in DOMAIN json

\* steam_json_val(json, name, json_array, &jv)
steam_json_arr(json, name) == JHas(json, name)

\* steam_json_str: FALSE and *str = NULL when absent or empty.
steam_json_str_ok(json, name) == JHas(json, name) /\ json[name] # ""
steam_json_str(json, name) ==
    IF steam_json_str_ok(json, name) THEN json[name] ELSE NULLSTR

\* steam_json_int: FALSE and *i = 0 when absent.
steam_json_int_ok(json, name) == JHas(json, name)
steam_json_int(json, name) == IF JHas(json, name) THEN json[name] ELSE 0

\* steam_json_bool: FALSE when absent.
steam_json_bool(json, name) == JHas(json, name) /\ json[name]

\* steam_json_scmp: the string is present and equals match, ignoring case.
steam_json_scmp(json, name, match) ==
    /\ steam_json_str_ok(json, name)
    /\ match # NULLSTR
    /\ Fold(match) = Fold(json[name])

\* Identity strings are modelled as positive integers; 0 is NULL.
steam_json_id_ok(json, name) == JHas(json, name) /\ json[name] # NULLID
steam_json_id(json, name) ==
    IF steam_json_id_ok(json, name) THEN json[name] ELSE NULLID

(***************************************************************************)
(* Errors (GError): kind, message and the prefixes put in front of it.     *)
(***************************************************************************)
NoErr == [kind |-> "NONE", msg |-> "", pfx |-> <<>>]
MkErr(kind, msg) == [kind |-> kind, msg |-> msg, pfx |-> <<>>]

\* An error setter that replaces an error already held.
g_set_error_overwrite(err, kind, msg) == MkErr(kind, msg)

\* g_set_error(&err, ...) / g_propagate_error: an error already held stays.
g_set_error(err, kind, msg) == IF err = NoErr THEN MkErr(kind, msg) ELSE err

g_prefix_error(err, p) == [err EXCEPT !.pfx = <<p>> \o @]

steam_api_type_str(type) ==
    CASE type = "AUTH"          -> "Authentication"
      [] type = "AUTH_RDIR"     -> "Authentication (redirect)"
      [] type = "CHATLOG"       -> "ChatLog"
      [] type = "FRIEND_ACCEPT" -> "Friend Acceptance"
      [] type = "FRIEND_ADD"    -> "Friend Addition"
      [] type = "FRIEND_IGNORE" -> "Friend Ignore"
      [] type = "FRIEND_REMOVE" -> "Friend Removal"
      [] type = "FRIEND_SEARCH" -> "Friend Search"
      [] type = "FRIENDS"       -> "Friends"
      [] type = "KEY"           -> "Key"
      [] type = "LOGON"         -> "Logon"
      [] type = "RELOGON"       -> "Relogon"
      [] type = "LOGOFF"        -> "Logoff"
      [] type = "MESSAGE"       -> "Message"
      [] type = "POLL"          -> "Polling"
      [] type = "SUMMARY"       -> "Summary"
      [] OTHER                  -> "Generic"

(***************************************************************************)
(* Transport (steam-http): requests, the FIFO queue and its pause flag.    *)
(***************************************************************************)
NewReq(c, kind) ==
    [data |-> c, st |-> "new", nofree |-> FALSE, queued |-> FALSE,
     kind |-> kind, ids |-> <<>>]

steam_http_req_new(h, id, c, kind) ==
    [h EXCEPT !.reqs = (id :> NewReq(c, kind)) @@ @]

steam_http_req_send(h, id) ==
    IF h.reqs[id].queued
    THEN [h EXCEPT !.reqs[id].st = "queued", !.queue = Append(@, id)]
    ELSE [h EXCEPT !.reqs[id].st = "flight"]

steam_http_queue_pause(h, pause) == [h EXCEPT !.paused = pause]

steam_http_req_resend(h, id) ==
    [h EXCEPT !.reqs[id].nofree = TRUE,
              !.reqs[id].st     = "queued",
              !.queue           = <<id>> \o @]

steam_http_req_free(h, id) ==
    [h EXCEPT !.reqs  = [i \in (DOMAIN h.reqs) \ {id} |-> h.reqs[i]],
              !.queue = SelectSeq(@, LAMBDA i : i # id)]

(***************************************************************************)
(* Call contexts (SteamApiData) and the working state of one handler run.  *)
(* A handler works on w = [c, s, api, http, nreq, log, ev]: the context id *)
(* and record, the session, the transport, the context's request serial,   *)
(* the sizes of the summaries requests it issued, and what the run did.    *)
(***************************************************************************)
NoData(st) ==
    [st |-> st, type |-> "NONE", func |-> FALSE, flags |-> {}, err |-> NoErr,
     rdata |-> <<>>, rfunc |-> FALSE, sums |-> <<>>, req |-> NOREQ]

\* steam_api_data_new: g_new0 and the four assignments.
steam_api_data_new(type, func) ==
    [NoData("live") EXCEPT !.type = type, !.func = func]

NoEv ==
    [ncall |-> 0, cberr |-> NoErr, cbrdata |-> <<>>, cbsums |-> 0,
     nfree |-> 0, expired |-> FALSE, resent |-> NOREQ, parsed |-> "none",
     fault |-> FALSE]

SetErr(w, kind, msg) == [w EXCEPT !.s.err = g_set_error(@, kind, msg)]

\* steam_api_data_free: the context's memory is gone.
steam_api_data_free(w) ==
    [w EXCEPT !.s = NoData("freed"), !.ev.nfree = @ + 1]

TypesPlain == {"AUTH", "AUTH_RDIR", "KEY", "LOGOFF", "LOGON", "RELOGON", "MESSAGE"}
TypesId    == {"FRIEND_ACCEPT", "FRIEND_ADD", "FRIEND_IGNORE", "FRIEND_REMOVE"}
TypesList  == {"CHATLOG", "FRIEND_SEARCH", "FRIENDS", "POLL"}
TypesSum   == {"SUMMARY"}
ApiTypes   == TypesPlain \cup TypesId \cup TypesList \cup TypesSum

\* steam_api_data_func: invoke the typed user callback with err (and rdata).
steam_api_data_func(w) ==
    IF ~w.s.func THEN w
    ELSE IF w.s.type \in ApiTypes
    THEN [w EXCEPT !.ev.ncall   = @ + 1,
                   !.ev.cberr   = w.s.err,
                   !.ev.cbrdata = IF w.s.type \in TypesPlain THEN <<>> ELSE w.s.rdata,
                   !.ev.cbsums  = Len(w.s.sums)]
    ELSE w

\* steam_api_data_req: a fresh request becomes the context's request.
steam_api_data_req(w, kind) ==
    LET id == <<w.c, w.nreq + 1>> IN
    [w EXCEPT !.http  = steam_http_req_new(@, id, w.c, kind),
              !.s.req = id,
              !.nreq  = @ + 1]

SendReq(w) == [w EXCEPT !.http = steam_http_req_send(@, w.s.req)]

\* An expiry that resends without pausing the queue.
steam_api_data_relogon_nopause(w) ==
    [SetErr(w, "LOGON_EXPIRED", "Logon session expired")
        EXCEPT !.http       = steam_http_req_resend(@, w.s.req),
               !.ev.expired = TRUE,
               !.ev.resent  = w.s.req]

\* steam_api_data_relogon: expire, pause the queue, resend the same request.
steam_api_data_relogon(w) ==
    [SetErr(w, "LOGON_EXPIRED", "Logon session expired")
        EXCEPT !.http       = steam_http_req_resend(
                                  steam_http_queue_pause(@, TRUE), w.s.req),
               !.ev.expired = TRUE,
               !.ev.resent  = w.s.req]

(***************************************************************************)
(* Friend summaries.                                                       *)
(***************************************************************************)
\* steam_friend_summary_new(steamid), tagged with the handle h of the object.
steam_friend_summary_new(steamid, h) ==
    [steamid |-> steamid, h |-> h, nick |-> NULLSTR, fullname |-> NULLSTR,
     game |-> NULLSTR, server |-> NULLSTR, state |-> 0, relation |-> "NONE",
     action |-> 0]

\* steam_friend_summary_json: copy the profile fields of a player object.
steam_friend_summary_json(smry, json) ==
    [smry EXCEPT !.game     = steam_json_str(json, "gameextrainfo"),
                 !.server   = steam_json_str(json, "gameserverip"),
                 !.nick     = steam_json_str(json, "personaname"),
                 !.fullname = steam_json_str(json, "realname"),
                 !.state    = steam_json_int(json, "personastate")]

\* The summary object behind a result entry: the entry itself, or the
\* summary embedded in a message (mesg->smry).
FillSmry(entry, je) ==
    IF "smry" \in DOMAIN entry
    THEN [entry EXCEPT !.smry = steam_friend_summary_json(@, je)]
    ELSE steam_friend_summary_json(entry, je)

\* A pending entry of sata->sums points at the summary object with handle h.
SumRef(smry) == [steamid |-> smry.steamid, h |-> smry.h]

\* A loop body without the table lookup: a repeated identity is listed again.
SummariesIdsStepNoDedup(acc, e) ==
    IF acc.stop THEN acc
    ELSE [tbl  |-> acc.tbl \cup {e.steamid},
          out  |-> Append(acc.out, e.steamid),
          stop |-> (Len(acc.out) + 1) % SUMMARIES_MAX = 0]

\* A loop body without the break at SUMMARIES_MAX identities.
SummariesIdsStepNoCap(acc, e) ==
    IF acc.stop \/ e.steamid \in acc.tbl THEN acc
    ELSE [tbl  |-> acc.tbl \cup {e.steamid},
          out  |-> Append(acc.out, e.steamid),
          stop |-> FALSE]

\* The body of the loop of steam_api_summaries for one pending entry: skip
\* an identity already in the table, else append it, and stop the loop once
\* the count of appended identities is a multiple of SUMMARIES_MAX.
SummariesIdsStep(acc, e) ==
    IF acc.stop \/ e.steamid \in acc.tbl THEN acc
    ELSE [tbl  |-> acc.tbl \cup {e.steamid},
          out  |-> Append(acc.out, e.steamid),
          stop |-> (Len(acc.out) + 1) % SUMMARIES_MAX = 0]

RECURSIVE SummariesIdsLoop(_, _, _, _)
\* The loop over sums[lo..hi], in list order.
SummariesIdsLoop(sums, lo, hi, acc) ==
    IF lo > hi THEN acc
    ELSE IF lo = hi THEN SummariesIdsStep(acc, sums[lo])
    ELSE LET mid  == (lo + hi) \div 2
             left == SummariesIdsLoop(sums, lo, mid, acc)
         IN  IF left.stop THEN left ELSE SummariesIdsLoop(sums, mid + 1, hi, left)

\* The identities steam_api_summaries puts in the steamids parameter.
SummariesIds(sums) ==
    SummariesIdsLoop(sums, 1, Len(sums),
                     [tbl |-> {}, out |-> <<>>, stop |-> FALSE]).out

\* The record of one summaries request: the pending entries and distinct
\* pending identities when it was built, the identities it lists, and the
\* answer it got.
LogEntry(sums, ids) ==
    [pend |-> Len(sums),
     uniq |-> Cardinality({sums[k].steamid : k \in 1..Len(sums)}),
     n    |-> Len(ids),
     ans  |-> "pending"]

\* A batch request that suppresses the callback and does not keep the context.
steam_api_summaries_nocall_only(w) ==
    IF w.s.sums = <<>> THEN w
    ELSE LET ids == SummariesIds(w.s.sums)
             w1  == steam_api_data_req(
                        [w EXCEPT !.s.flags = @ \cup {"NOCALL"}],
                        "SUMMARIES")
         IN  SendReq([w1 EXCEPT !.http.reqs[w1.s.req].ids = ids,
                                !.log = Append(@, LogEntry(w.s.sums, ids))])

\* steam_api_summaries: suppress callback and free, request the next batch.
steam_api_summaries(w) ==
    IF w.s.sums = <<>> THEN w
    ELSE LET ids == SummariesIds(w.s.sums)
             w1  == steam_api_data_req(
                        [w EXCEPT !.s.flags = @ \cup {"NOCALL", "NOFREE"}],
                        "SUMMARIES")
         IN  SendReq([w1 EXCEPT !.http.reqs[w1.s.req].ids = ids,
                                !.log = Append(@, LogEntry(w.s.sums, ids))])

\* A reconciliation that unlinks only the first pending entry of the player.
SummariesMatchFirstOnly(s, je) ==
    LET str == steam_json_id(je, "steamid")
        ks  == {k \in 1..Len(s.sums) : s.sums[k].steamid = str}
    IN  IF ~steam_json_id_ok(je, "steamid") \/ ks = {} THEN s
        ELSE LET k0 == CHOOSE k \in ks : \A j \in ks : k <= j IN
             [s EXCEPT
                !.sums  = [i \in 1..(Len(@) - 1) |-> IF i < k0 THEN @[i] ELSE @[i + 1]],
                !.rdata = [i \in 1..Len(@) |->
                             IF @[i].h = s.sums[k0].h THEN FillSmry(@[i], je) ELSE @[i]]]

\* A reconciliation that unlinks the player's pending entries and copies no
\* profile field.
SummariesMatchNoFill(s, je) ==
    LET str == steam_json_id(je, "steamid") IN
    IF ~steam_json_id_ok(je, "steamid") THEN s
    ELSE [s EXCEPT !.sums = SelectSeq(@, LAMBDA e : e.steamid # str)]

\* The inner loop of steam_api_summaries_cb for one player object: every
\* pending entry with the player's steamid is unlinked and its summary filled.
SummariesMatch(s, je) ==
    LET str == steam_json_id(je, "steamid")
        hit == {s.sums[k].h : k \in {k \in 1..Len(s.sums) : s.sums[k].steamid = str}}
    IN  IF ~steam_json_id_ok(je, "steamid") THEN s
        ELSE [s EXCEPT
                !.sums  = SelectSeq(@, LAMBDA e : e.steamid # str),
                !.rdata = [i \in 1..Len(@) |->
                             IF @[i].h \in hit THEN FillSmry(@[i], je) ELSE @[i]]]

RECURSIVE SummariesLoop(_, _, _, _)
\* The loop of steam_api_summaries_cb over players[lo..hi], in array order.
SummariesLoop(s, players, lo, hi) ==
    IF lo > hi THEN s
    ELSE IF lo = hi THEN SummariesMatch(s, players[lo])
    ELSE LET mid  == (lo + hi) \div 2
             left == SummariesLoop(s, players, lo, mid)
         IN  IF left.sums = <<>> THEN left    \* nothing is left to match
             ELSE SummariesLoop(left, players, mid + 1, hi)

\* steam_api_summaries_cb: reconcile a summaries response with sata->sums.
steam_api_summaries_cb(w, json) ==
    IF ~steam_json_arr(json, "players") THEN [w EXCEPT !.ev.parsed = "summaries"]
    ELSE IF Len(json.players) < 1 THEN [w EXCEPT !.ev.parsed = "summaries"]
    ELSE steam_api_summaries(
             [w EXCEPT !.s = SummariesLoop(@, json.players, 1, Len(json.players)),
                       !.ev.parsed = "summaries"])

(***************************************************************************)
(* Response parsers, one per call type.                                    *)
(***************************************************************************)
\* steam_auth_captcha / steam_auth_email on api->auth.
steam_auth_set(auth, field, str) ==
    IF auth = <<>> THEN auth ELSE [auth EXCEPT ![field] = str]

\* A redirect that leaves the context's type as it was.
steam_api_auth_rdir_keeptype(w) ==
    LET w1 == steam_api_data_req(w, "AUTH_RDIR") IN
    SendReq([w1 EXCEPT !.s.flags = @ \cup {"NOJSON"}])

\* steam_api_auth_rdir: the same context goes on as the redirect call.
steam_api_auth_rdir(w) ==
    LET w1 == steam_api_data_req(w, "AUTH_RDIR") IN
    SendReq([w1 EXCEPT !.s.type  = "AUTH_RDIR",
                       !.s.flags = @ \cup {"NOJSON"}])

\* A choice of error that looks at captcha_needed first.
AuthErrKindCaptchaFirst(json) ==
    IF steam_json_bool(json, "captcha_needed") THEN "AUTH_CAPTCHA"
    ELSE IF steam_json_bool(json, "emailauth_needed") THEN "AUTH_GUARD"
    ELSE "AUTH"

\* Lines 332-337: the error code of an unsuccessful authentication.
AuthErrKind(json) ==
    IF steam_json_bool(json, "emailauth_needed") THEN "AUTH_GUARD"
    ELSE IF steam_json_bool(json, "captcha_needed") THEN "AUTH_CAPTCHA"
    ELSE "AUTH"

steam_api_auth_cb(w, json) ==
    LET w1 == IF steam_json_str_ok(json, "captcha_gid")
              THEN [w EXCEPT !.api.auth = steam_auth_set(@, "cgid", json.captcha_gid)]
              ELSE w
        w2 == IF steam_json_str_ok(json, "emailsteamid")
              THEN [w1 EXCEPT !.api.auth = steam_auth_set(@, "esid", json.emailsteamid)]
              ELSE w1
        kind == AuthErrKind(json)
        msg  == IF steam_json_str_ok(json, "message") THEN json.message
                ELSE "Failed to authenticate"
    IN  IF ~steam_json_bool(json, "success") THEN SetErr(w2, kind, msg)
        ELSE IF ~JHas(json, "oauth") THEN SetErr(w2, "AUTH", "Failed to obtain OAuth sata")
        ELSE IF ~json.oauth.parse THEN SetErr(w2, "JSON_PARSER", "Parser")
        ELSE IF ~steam_json_str_ok(json.oauth.json, "oauth_token")
             THEN SetErr(w2, "AUTH", "Failed to obtain OAuth token")
        ELSE steam_api_auth_rdir(
                 [w2 EXCEPT !.api.token = json.oauth.json.oauth_token,
                            !.s.flags   = @ \cup {"NOCALL", "NOFREE"}])

\* steam_api_auth_rdir_cb: the session id comes from the cookie jar.
steam_api_auth_rdir_cb(w, resp) ==
    LET jar == IF resp.cookie # NULLSTR THEN resp.cookie ELSE w.http.sessionid IN
    IF jar = NULLSTR
    THEN SetErr(w, "AUTH", "Failed to obtain OAuth session ID")
    ELSE [w EXCEPT !.http.sessionid = jar, !.api.sessid = jar]

\* Account ids and steamids differ by the base STEAM_API_STEAMID
\* (scaled to the identity range of the model).
STEAM_API_STEAMID == 1000

\* gint64, scaled to IntWidth bits: the range, and the two's-complement value
\* the machine's addition and subtraction leave on overflow.
Int64 == -(2 ^ (IntWidth - 1)) .. (2 ^ (IntWidth - 1) - 1)
Wrap(v) == ((v + 2 ^ (IntWidth - 1)) % (2 ^ IntWidth)) - 2 ^ (IntWidth - 1)

\* A conversion that stops at the largest gint64 instead of wrapping.
steam_api_steamid_int_sat(accid) ==
    IF accid + STEAM_API_STEAMID > 2 ^ (IntWidth - 1) - 1
    THEN 2 ^ (IntWidth - 1) - 1
    ELSE accid + STEAM_API_STEAMID

steam_api_accountid_int(steamid) == Wrap(steamid - STEAM_API_STEAMID)
steam_api_steamid_int(accid) == Wrap(accid + STEAM_API_STEAMID)
\* A conversion that leaves the base in the account id.
steam_api_accountid_str_raw(steamid) == steamid

steam_api_accountid_str(steamid) ==
    IF steamid = NULLID THEN 0 ELSE steam_api_accountid_int(steamid)

\* The identities of the model: the session's own and its contacts'.
Sid(n) == steam_api_steamid_int(n)
OwnId  == Sid(9)

steam_api_message_new(steamid, h) ==
    [type |-> "LAST", text |-> NULLSTR, tstamp |-> 0, h |-> h,
     smry |-> steam_friend_summary_new(steamid, h)]

RECURSIVE ChatlogLoop(_, _, _, _)
ChatlogLoop(arr, i, accid, messages) ==
    IF i > Len(arr) THEN messages
    ELSE LET jv == arr[i] IN
         IF ~steam_json_int_ok(jv, "m_unAccountID") \/ jv.m_unAccountID = accid
         THEN ChatlogLoop(arr, i + 1, accid, messages)
         ELSE ChatlogLoop(arr, i + 1, accid, Append(messages,
                  [steam_api_message_new(steam_api_steamid_int(jv.m_unAccountID), i)
                      EXCEPT !.type   = "SAYTEXT",
                             !.text   = steam_json_str(jv, "m_strMessage"),
                             !.tstamp = steam_json_int(jv, "m_tsTimestamp")]))

steam_api_chatlog_cb(w, json) ==
    [w EXCEPT !.s.rdata = ChatlogLoop(json.array, 1,
                              steam_api_accountid_str(w.api.steamid), <<>>),
              !.s.rfunc = TRUE]

steam_api_friend_accept_cb(w, json) ==
    IF ~steam_json_scmp(json, "error_text", "") THEN w
    ELSE SetErr(w, "FRIEND_ACCEPT", json.error_text)

steam_api_friend_add_cb(w, json) ==
    IF ~steam_json_arr(json, "failed_invites_result") THEN w
    ELSE IF Len(json.failed_invites_result) < 1 THEN w
    ELSE SetErr(w, "FRIEND_ADD", "Failed to add friend")

steam_api_friend_ignore_cb(w, json) == w

\* bool2int(req->body) on a non-empty body.
steam_api_friend_remove_cb(w, resp) ==
    IF resp.body # "" /\ resp.body \in {"true", "yes", "on", "1"} THEN w
    ELSE SetErr(w, "FRIEND_REMOVE", "Failed to remove friend")

RECURSIVE FriendSearchLoop(_, _, _)
FriendSearchLoop(arr, i, results) ==
    IF i > Len(arr) THEN results
    ELSE LET je == arr[i] IN
         IF ~steam_json_scmp(je, "type", "user") \/ ~steam_json_id_ok(je, "steamid")
         THEN FriendSearchLoop(arr, i + 1, results)
         ELSE FriendSearchLoop(arr, i + 1, Append(results,
                  [steam_friend_summary_new(je.steamid, i)
                      EXCEPT !.nick = steam_json_str(je, "matchingtext")]))

steam_api_friend_search_cb(w, json) ==
    IF ~steam_json_arr(json, "results") THEN w
    ELSE [w EXCEPT !.s.rdata = FriendSearchLoop(json.results, 1, <<>>),
                   !.s.rfunc = TRUE]

\* A loop body that keeps an entry whatever its relationship.
FriendsStepAnyRelation(acc, je, i) ==
    LET smry == steam_friend_summary_new(steam_json_id(je, "steamid"), i) IN
    IF ~steam_json_id_ok(je, "steamid") THEN acc
    ELSE [friends |-> <<smry>> \o acc.friends,
          sums    |-> <<SumRef(smry)>> \o acc.sums]

\* The body of the loop of steam_api_friends_cb for element i; both lists
\* grow by g_(s)list_prepend.
FriendsStep(acc, je, i) ==
    LET str  == steam_json_str(je, "relationship")
        rlat == IF g_ascii_strcasecmp_eq(str, "friend") THEN "FRIEND"
                ELSE IF g_ascii_strcasecmp_eq(str, "ignoredfriend") THEN "IGNORE"
                ELSE "NONE"
        smry == [steam_friend_summary_new(steam_json_id(je, "steamid"), i)
                    EXCEPT !.relation = rlat]
    IN  IF str = NULLSTR \/ rlat = "NONE" \/ ~steam_json_id_ok(je, "steamid")
        THEN acc
        ELSE [friends |-> <<smry>> \o acc.friends,
              sums    |-> <<SumRef(smry)>> \o acc.sums]

RECURSIVE FriendsLoop(_, _, _, _)
FriendsLoop(arr, lo, hi, acc) ==
    IF lo > hi THEN acc
    ELSE IF lo = hi THEN FriendsStep(acc, arr[lo], lo)
    ELSE LET mid  == (lo + hi) \div 2
             left == FriendsLoop(arr, lo, mid, acc)
         IN  IF Len(left.friends) = Len(left.sums) - Len(acc.sums) + Len(acc.friends)
             THEN FriendsLoop(arr, mid + 1, hi, left)
             ELSE left

steam_api_friends_cb(w, json) ==
    IF ~steam_json_arr(json, "friends") THEN w
    ELSE LET r == FriendsLoop(json.friends, 1, Len(json.friends),
                              [friends |-> <<>>, sums |-> w.s.sums]) IN
         [w EXCEPT !.s.rdata = r.friends, !.s.sums = r.sums, !.s.rfunc = TRUE]

\* steam_auth_key_mod / steam_auth_key_exp accept hexadecimal strings.
steam_auth_key_ok(str) == str \in {"AB", "01"}

steam_api_key_cb(w, json) ==
    LET auth0 == IF w.api.auth # <<>> THEN w.api.auth
                 ELSE [mod |-> NULLSTR, exp |-> NULLSTR, time |-> NULLSTR,
                       cgid |-> NULLSTR, esid |-> NULLSTR]
        keep(a) == IF w.api.auth # <<>> THEN [w EXCEPT !.api.auth = a] ELSE w
        fail(x) == SetErr(x, "KEY", "Failed to retrieve authentication key")
    IN  IF steam_json_scmp(json, "success", "false") THEN fail(w)
        ELSE IF ~steam_json_str_ok(json, "publickey_mod")
                \/ ~steam_auth_key_ok(json.publickey_mod) THEN fail(w)
        ELSE LET auth1 == [auth0 EXCEPT !.mod = json.publickey_mod] IN
             IF ~steam_json_str_ok(json, "publickey_exp")
                \/ ~steam_auth_key_ok(json.publickey_exp) THEN fail(keep(auth1))
             ELSE [w EXCEPT !.api.auth =
                      [auth1 EXCEPT !.exp  = json.publickey_exp,
                                    !.time = IF steam_json_str_ok(json, "timestamp")
                                             THEN json.timestamp ELSE @]]

\* A logon parser that takes the cursor and nothing else from the response.
steam_api_logon_cb_cursor_only(w, json) ==
    IF ~steam_json_scmp(json, "error", "OK")
    THEN SetErr(w, "LOGON", steam_json_str(json, "error"))
    ELSE [w EXCEPT !.api.lmid = steam_json_int(json, "message")]

steam_api_logon_cb(w, json) ==
    IF ~steam_json_scmp(json, "error", "OK")
    THEN SetErr(w, "LOGON", steam_json_str(json, "error"))
    ELSE [w EXCEPT
            !.api.lmid    = steam_json_int(json, "message"),
            !.api.tstamp  = steam_json_int(json, "utc_timestamp"),
            !.api.steamid = IF steam_json_id_ok(json, "steamid") /\ @ # NULLID
                               /\ json.steamid = @
                            THEN @ ELSE steam_json_id(json, "steamid"),
            !.api.umqid   = IF steam_json_scmp(json, "umqid", @)
                            THEN @ ELSE steam_json_str(json, "umqid")]

\* A relogon parser that reads the response as the logon parser does.
steam_api_relogon_cb_as_logon(w, json) ==
    steam_api_logon_cb([w EXCEPT !.http = steam_http_queue_pause(@, FALSE)], json)

\* steam_api_relogon_cb: unpause the queue, then look at the error field.
steam_api_relogon_cb(w, json) ==
    LET w1 == [w EXCEPT !.http = steam_http_queue_pause(@, FALSE)] IN
    IF steam_json_scmp(json, "error", "OK") THEN w1
    ELSE SetErr(w1, "RELOGON", steam_json_str(json, "error"))

steam_api_logoff_cb(w, json) ==
    IF steam_json_scmp(json, "error", "OK") THEN w
    ELSE SetErr(w, "LOGOFF", steam_json_str(json, "error"))

steam_api_message_cb(w, json) ==
    LET str == steam_json_str(json, "error") IN
    IF steam_json_scmp(json, "error", "OK") THEN w
    ELSE IF g_ascii_strcasecmp_eq(str, "Not Logged On") THEN steam_api_data_relogon(w)
    ELSE SetErr(w, "LOGOFF", str)

steam_api_message_type_str(type) ==
    CASE type = "SAYTEXT"      -> "saytext"
      [] type = "EMOTE"        -> "emote"
      [] type = "LEFT_CONV"    -> "leftconversation"
      [] type = "RELATIONSHIP" -> "personarelationship"
      [] type = "STATE"        -> "personastate"
      [] type = "TYPING"       -> "typing"
      [] OTHER                 -> ""

MessageTypes == {"SAYTEXT", "EMOTE", "LEFT_CONV", "RELATIONSHIP", "STATE", "TYPING"}

\* A classification that compares the type string letter by letter.
steam_api_message_type_from_str_exact(type) ==
    IF type = NULLSTR THEN "LAST"
    ELSE IF \E i \in MessageTypes : type = steam_api_message_type_str(i)
    THEN CHOOSE i \in MessageTypes : type = steam_api_message_type_str(i)
    ELSE "LAST"

steam_api_message_type_from_str(type) ==
    IF type = NULLSTR THEN "LAST"
    ELSE IF \E i \in MessageTypes : Fold(type) = Fold(steam_api_message_type_str(i))
    THEN CHOOSE i \in MessageTypes : Fold(type) = Fold(steam_api_message_type_str(i))
    ELSE "LAST"

RECURSIVE PollLoop(_, _, _, _, _)
\* The message loop of steam_api_poll_cb.
PollLoop(arr, i, own, messages, sums) ==
    IF i > Len(arr) THEN [messages |-> messages, sums |-> sums]
    ELSE LET je   == arr[i]
             mine == steam_json_id_ok(je, "steamid_from") /\ own # NULLID
                     /\ je.steamid_from = own
             type == steam_api_message_type_from_str(steam_json_str(je, "type"))
             m0   == [steam_api_message_new(steam_json_id(je, "steamid_from"), i)
                         EXCEPT !.type   = type,
                                !.tstamp = steam_json_int(je, "utc_timestamp")]
         IN  IF mine THEN PollLoop(arr, i + 1, own, messages, sums)
             ELSE IF type \in {"SAYTEXT", "EMOTE"}
             THEN PollLoop(arr, i + 1, own,
                      Append(messages, [m0 EXCEPT !.text = steam_json_str(je, "text")]),
                      sums)
             ELSE IF type = "STATE"
             THEN PollLoop(arr, i + 1, own,
                      Append(messages,
                          [m0 EXCEPT !.smry.nick = steam_json_str(je, "persona_name")]),
                      <<SumRef(m0.smry)>> \o sums)
             ELSE IF type = "RELATIONSHIP"
             THEN PollLoop(arr, i + 1, own,
                      Append(messages,
                          [m0 EXCEPT !.smry.action = steam_json_int(je, "persona_state")]),
                      <<SumRef(m0.smry)>> \o sums)
             ELSE IF type \in {"TYPING", "LEFT_CONV"}
             THEN PollLoop(arr, i + 1, own, Append(messages, m0), sums)
             ELSE PollLoop(arr, i + 1, own, messages, sums)

\* A gate that takes only "OK" for a non-fatal error string.
PollGateOkOnly(json) ==
    /\ steam_json_str_ok(json, "error")
    /\ ~g_ascii_strcasecmp_eq(steam_json_str(json, "error"), "OK")

\* Lines 678-680: the error string is present and neither "Timeout" nor "OK".
PollGate(json) ==
    /\ steam_json_str_ok(json, "error")
    /\ ~g_ascii_strcasecmp_eq(steam_json_str(json, "error"), "Timeout")
    /\ ~g_ascii_strcasecmp_eq(steam_json_str(json, "error"), "OK")

\* A floor test that ignores the number of messages.
PollTooLowAnySize(json, size) ==
    \/ ~steam_json_int_ok(json, "sectimeout")
    \/ json.sectimeout < STEAM_API_TIMEOUT

\* Lines 697-698: no sectimeout, or one below the floor with no message.
PollTooLow(json, size) ==
    \/ ~steam_json_int_ok(json, "sectimeout")
    \/ (json.sectimeout < STEAM_API_TIMEOUT /\ size < 1)

\* A cursor test that never finds the cursor unchanged.
PollSeenNever(lmid, json) == ~steam_json_int_ok(json, "messagelast")

\* Line 705: no messagelast, or one equal to the cursor.
PollSeen(lmid, json) ==
    \/ ~steam_json_int_ok(json, "messagelast")
    \/ json.messagelast = lmid

steam_api_poll_cb(w, json) ==
    LET str  == steam_json_str(json, "error")
        size == IF steam_json_arr(json, "messages") THEN Len(json.messages) ELSE 0
    IN  IF PollGate(json)
        THEN IF g_ascii_strcasecmp_eq(str, "Not Logged On")
             THEN steam_api_data_relogon(w)
             ELSE SetErr(w, "POLL", str)
        ELSE IF PollTooLow(json, size)
        THEN SetErr(w, "POLL", "Timeout too low")
        ELSE IF PollSeen(w.api.lmid, json)
        THEN w
        ELSE IF ~JHas(json, "messages")
        THEN [w EXCEPT !.api.lmid = json.messagelast, !.ev.fault = TRUE]
        ELSE LET r == PollLoop(json.messages, 1, w.api.steamid, <<>>, w.s.sums) IN
             [w EXCEPT !.api.lmid = json.messagelast,
                       !.s.rdata  = r.messages,
                       !.s.sums   = r.sums,
                       !.s.rfunc  = TRUE]

steam_api_summary_cb(w, json) ==
    IF ~steam_json_arr(json, "players") THEN w
    ELSE IF Len(json.players) < 1 THEN w
    ELSE LET jv == json.players[1] IN
         IF ~steam_json_id_ok(jv, "steamid") THEN w
         ELSE [w EXCEPT !.s.rdata = <<steam_friend_summary_json(
                                        steam_friend_summary_new(jv.steamid, 1), jv)>>,
                        !.s.rfunc = TRUE]

(***************************************************************************)
(* The dispatcher.                                                         *)
(***************************************************************************)
\* pfuncs[sata->type](sata, json)
pfuncs(w, resp) ==
    LET type == w.s.type
        json == resp.json
        w1   == [w EXCEPT !.ev.parsed = type]
    IN  CASE type = "AUTH"          -> steam_api_auth_cb(w1, json)
          [] type = "AUTH_RDIR"     -> steam_api_auth_rdir_cb(w1, resp)
          [] type = "CHATLOG"       -> steam_api_chatlog_cb(w1, json)
          [] type = "FRIEND_ACCEPT" -> steam_api_friend_accept_cb(w1, json)
          [] type = "FRIEND_ADD"    -> steam_api_friend_add_cb(w1, json)
          [] type = "FRIEND_IGNORE" -> steam_api_friend_ignore_cb(w1, json)
          [] type = "FRIEND_REMOVE" -> steam_api_friend_remove_cb(w1, resp)
          [] type = "FRIEND_SEARCH" -> steam_api_friend_search_cb(w1, json)
          [] type = "FRIENDS"       -> steam_api_friends_cb(w1, json)
          [] type = "KEY"           -> steam_api_key_cb(w1, json)
          [] type = "LOGOFF"        -> steam_api_logoff_cb(w1, json)
          [] type = "LOGON"         -> steam_api_logon_cb(w1, json)
          [] type = "RELOGON"       -> steam_api_relogon_cb(w1, json)
          [] type = "MESSAGE"       -> steam_api_message_cb(w1, json)
          [] type = "POLL"          -> steam_api_poll_cb(w1, json)
          [] type = "SUMMARY"       -> steam_api_summary_cb(w1, json)

\* Lines 854-859: adopt the transport error, or parse the body.
ApiCbJson(w, resp) ==
    IF resp.terr THEN SetErr(w, "HTTP", "Request failed")
    ELSE IF "NOJSON" \notin w.s.flags /\ ~resp.parse
    THEN SetErr(w, "JSON_PARSER", "Parser")
    ELSE w

\* A parse step that runs the type's parser whatever the pending list holds.
ApiCbParseAlways(w, resp) ==
    IF w.s.err # NoErr THEN w
    ELSE LET p == pfuncs(w, resp) IN
         IF p.ev.fault THEN p
         ELSE IF p.s.sums # <<>> THEN steam_api_summaries(p) ELSE p

\* Lines 861-870: the type's parser, or the reconciliation of summaries.
ApiCbParse(w, resp) ==
    LET json_nonnull == ~resp.terr /\ "NOJSON" \notin w.s.flags /\ resp.parse IN
    IF w.s.err # NoErr THEN w
    ELSE IF w.s.sums = <<>>
    THEN LET p == pfuncs(w, resp) IN
         IF p.ev.fault THEN p
         ELSE IF p.s.sums # <<>> THEN steam_api_summaries(p) ELSE p
    ELSE IF json_nonnull THEN steam_api_summaries_cb(w, resp.json)
    ELSE w

\* Lines 872-876: prefix the error, invoke the callback unless suppressed.
ApiCbCall(w) ==
    LET w1 == IF w.s.err # NoErr
              THEN [w EXCEPT !.s.err = g_prefix_error(@, steam_api_type_str(w.s.type))]
              ELSE w
    IN  IF "NOCALL" \notin w1.s.flags THEN steam_api_data_func(w1) ELSE w1

\* A release step that keeps a kept-alive context's flags as they are.
ApiCbFreeKeepFlags(w) ==
    LET w1 == IF w.http.reqs[w.s.req].nofree
              THEN [w EXCEPT !.s.flags = @ \cup {"NOFREE"}]
              ELSE w
    IN  IF "NOFREE" \notin w1.s.flags
        THEN steam_api_data_free([w1 EXCEPT !.s.req = NOREQ])
        ELSE w1

\* Lines 881-889: release the context unless it is kept alive.
ApiCbFree(w) ==
    LET w1 == IF w.http.reqs[w.s.req].nofree
              THEN [w EXCEPT !.s.flags = @ \cup {"NOFREE"}]
              ELSE w
    IN  IF "NOFREE" \notin w1.s.flags
        THEN steam_api_data_free([w1 EXCEPT !.s.req = NOREQ])
        ELSE [w1 EXCEPT !.s.flags = @ \ {"NOCALL", "NOFREE"}]

steam_api_cb(w, resp) ==
    LET p == ApiCbParse(ApiCbJson(w, resp), resp) IN
    IF p.ev.fault THEN p ELSE ApiCbFree(ApiCbCall(p))

(***************************************************************************)
(* State.                                                                  *)
(***************************************************************************)
VARIABLES
    sata,    \* call contexts: Ctx -> SteamApiData
    api,     \* the session (SteamApi)
    http,    \* the transport: paused, queue, reqs, sessionid cookie
    nreq,    \* Ctx -> number of requests the context created
    log,     \* Ctx -> the summaries requests the context issued, and their answers
    calls,   \* Ctx -> number of invocations of the user callback
    frees,   \* Ctx -> number of releases of the context
    last,    \* what the latest step did
    fault    \* "none", or the fault that stopped the process

vars == <<sata, api, http, nreq, log, calls, frees, last, fault>>

NoAuth == <<>>
KeyedAuth ==
    [mod |-> "AB", exp |-> "01", time |-> "T0", cgid |-> NULLSTR, esid |-> NULLSTR]

\* steam_api_new: a zeroed session with a poll-session id.
FreshApi ==
    [lmid |-> 0, tstamp |-> 0, steamid |-> NULLID, umqid |-> "U0",
     token |-> NULLSTR, sessid |-> NULLSTR, auth |-> NoAuth]

\* A session whose identity, token and key the caller has filled in.
RestoredApi ==
    [FreshApi EXCEPT !.steamid = OwnId, !.token = "T0", !.sessid = "S0",
                     !.auth = KeyedAuth]

NoLast ==
    [op |-> "init", c |-> 0, type |-> "NONE", req |-> NOREQ, resp |-> "none",
     ev |-> NoEv, sums0 |-> <<>>, sums1 |-> <<>>, err0 |-> NoErr,
     paused0 |-> FALSE, flags |-> {}, st |-> "none"]

Init ==
    /\ sata  = [c \in Ctx |-> NoData("none")]
    /\ api \in {FreshApi, RestoredApi}
    /\ http  = [paused |-> FALSE, queue |-> <<>>, reqs |-> <<>>,
                sessionid |-> NULLSTR]
    /\ nreq  = [c \in Ctx |-> 0]
    /\ log   = [c \in Ctx |-> <<>>]
    /\ calls = [c \in Ctx |-> 0]
    /\ frees = [c \in Ctx |-> 0]
    /\ last  = NoLast
    /\ fault = "none"

\* The working state of a handler run on context c.
World(c, s) ==
    [c |-> c, s |-> s, api |-> api, http |-> http, nreq |-> nreq[c],
     log |-> log[c], ev |-> NoEv]

\* The state after a handler run w, with l the record of the step.
Commit(w, l) ==
    /\ sata'  = [sata EXCEPT ![w.c] = w.s]
    /\ api'   = w.api
    /\ http'  = w.http
    /\ nreq'  = [nreq EXCEPT ![w.c] = w.nreq]
    /\ log'   = [log EXCEPT ![w.c] = w.log]
    /\ calls' = [calls EXCEPT ![w.c] = @ + w.ev.ncall]
    /\ frees' = [frees EXCEPT ![w.c] = @ + w.ev.nfree]
    /\ last'  = [l EXCEPT !.ev = w.ev, !.sums1 = w.s.sums, !.flags = w.s.flags,
                          !.st = w.s.st]
    /\ fault' = IF w.ev.fault THEN "null-deref" ELSE fault

\* The next call context: contexts are allocated in order.
Fresh(c) ==
    /\ fault = "none"
    /\ sata[c].st = "none"
    /\ \A d \in Ctx : d < c => sata[d].st # "none"

CallLast(c, type) == [NoLast EXCEPT !.op = "call", !.c = c, !.type = type,
                                    !.paused0 = http.paused]

(***************************************************************************)
(* The typed call surface.                                                 *)
(***************************************************************************)
\* A call that builds its context and request and sends it.
SimpleCall(c, type, func, flags, rfunc, post) ==
    LET w0 == World(c, [steam_api_data_new(type, func) EXCEPT !.rfunc = rfunc])
        w1 == steam_api_data_req(w0, type)
        w2 == [w1 EXCEPT !.s.flags = flags,
                         !.http.reqs[w1.s.req].queued = (post = "queued")]
    IN  SendReq(w2)

\* steam_api_auth: the password is encrypted before anything is sent.
steam_api_auth(c, func, pswd_ok) ==
    /\ Fresh(c)
    /\ api.auth # NoAuth
    /\ LET w0 == World(c, steam_api_data_new("AUTH", func)) IN
       IF ~pswd_ok
       THEN Commit(steam_api_data_free(steam_api_data_func(
                       SetErr(w0, "AUTH", "Failed to encrypt password"))),
                   CallLast(c, "AUTH"))
       ELSE Commit(SendReq(steam_api_data_req(w0, "AUTH")), CallLast(c, "AUTH"))

IdTypes == [FRIEND_ACCEPT |-> {}, FRIEND_ADD |-> {},
            FRIEND_IGNORE |-> {"NOJSON"}, FRIEND_REMOVE |-> {"NOJSON"}]

\* steam_api_friend_accept / _add / _ignore / _remove: rdata is the steamid.
steam_api_friend_op(c, type, func) ==
    /\ Fresh(c)
    /\ Commit(SimpleCall(c, type, func, IdTypes[type], TRUE, "post"),
              CallLast(c, type))

\* steam_api_chatlog, _friend_search, _friends, _key, _logoff, _logon,
\* _poll, _summary.
steam_api_call(c, type, func) ==
    /\ Fresh(c)
    /\ Commit(SimpleCall(c, type, func, {}, FALSE, "post"), CallLast(c, type))

\* steam_api_relogon: the queue is paused before the request goes out.
steam_api_relogon(c, func) ==
    /\ Fresh(c)
    /\ LET w0 == World(c, steam_api_data_new("RELOGON", func))
           w1 == steam_api_data_req(w0, "RELOGON")
       IN  Commit(SendReq([w1 EXCEPT !.http = steam_http_queue_pause(@, TRUE)]),
                  CallLast(c, "RELOGON"))

\* steam_api_message: only text, emote and typing messages are sent.
steam_api_message(c, func, mtype) ==
    /\ Fresh(c)
    /\ IF mtype \in {"SAYTEXT", "EMOTE", "TYPING"}
       THEN Commit(SimpleCall(c, "MESSAGE", func, {}, FALSE, "queued"),
                   CallLast(c, "MESSAGE"))
       ELSE LET w0 == World(c, steam_api_data_new("MESSAGE", func))
                w1 == steam_api_data_req(w0, "MESSAGE")
            IN  Commit([w1 EXCEPT !.http = steam_http_req_free(@, w1.s.req)],
                       [CallLast(c, "MESSAGE") EXCEPT !.resp = "unsent"])

(***************************************************************************)
(* Responses the servers may give, by the request they answer.             *)
(***************************************************************************)
Resp(tag, json) ==
    [tag |-> tag, terr |-> FALSE, parse |-> TRUE, json |-> json, body |-> "",
     cookie |-> NULLSTR]

TransportError == [Resp("transport-error", <<>>) EXCEPT !.terr = TRUE]
BadBody        == [Resp("unparsable", <<>>) EXCEPT !.parse = FALSE]

Text(from)  == [steamid_from |-> from, type |-> "saytext", text |-> "hi",
                utc_timestamp |-> 5]
State(from) == [steamid_from |-> from, type |-> "PersonaState",
                persona_name |-> "nick", utc_timestamp |-> 5]
Rel(from)   == [steamid_from |-> from, type |-> "personarelationship",
                persona_state |-> 2, utc_timestamp |-> 5]

PollOk(err, last_, tout, msgs) ==
    [error |-> err, messagelast |-> last_, sectimeout |-> tout, messages |-> msgs]

PollResponses ==
    { Resp("expired", [error |-> "Not Logged On"]),
      Resp("expired-lc", [error |-> "not logged on"]),
      Resp("failed", [error |-> "Bad"]),
      Resp("text", PollOk("OK", 1, STEAM_API_TIMEOUT, <<Text(Sid(1))>>)),
      Resp("timeout", PollOk("Timeout", 0, STEAM_API_TIMEOUT, <<>>)),
      Resp("low-empty", PollOk("ok", 1, STEAM_API_TIMEOUT - 1, <<>>)),
      Resp("low-text", PollOk("OK", 1, STEAM_API_TIMEOUT - 1, <<Text(Sid(1))>>)),
      Resp("mixed", PollOk("OK", 2, STEAM_API_TIMEOUT,
                           <<State(Sid(1)), Text(OwnId), Rel(Sid(2)),
                             [steamid_from |-> Sid(3), type |-> "my_emote"],
                             [steamid_from |-> Sid(3), type |-> "typing"],
                             State(Sid(1))>>)),
      Resp("types", PollOk("OK", 3, STEAM_API_TIMEOUT,
                           <<[steamid_from |-> Sid(1), type |-> "Emote",
                              text |-> "waves", utc_timestamp |-> 5],
                             [steamid_from |-> Sid(2), type |-> "LeftConversation"],
                             [steamid_from |-> Sid(3)],
                             [type |-> "typing"],
                             [steamid_from |-> Sid(3), type |-> "saytext2",
                              text |-> "hi"],
                             Text(Sid(2))>>)),
      Resp("no-error", [messagelast |-> 1, sectimeout |-> STEAM_API_TIMEOUT,
                        messages |-> <<Text(Sid(2))>>]),
      Resp("no-messages", [error |-> "OK", messagelast |-> 1,
                           sectimeout |-> STEAM_API_TIMEOUT]),
      Resp("no-timeout", [error |-> "OK", messagelast |-> 1,
                          messages |-> <<Text(Sid(2))>>]) }

StatusResponses ==
    { Resp("ok", [error |-> "OK"]),
      Resp("expired", [error |-> "Not Logged On"]),
      Resp("failed", [error |-> "Bad"]),
      Resp("no-error", <<>>) }

LogonResponses ==
    { Resp("ok", [error |-> "ok", message |-> 1, utc_timestamp |-> 7,
                  steamid |-> OwnId, umqid |-> "U1"]),
      Resp("failed", [error |-> "Bad"]),
      Resp("no-error", [message |-> 2, steamid |-> Sid(1)]) }

\* The answers to a relogon request: a status, or a whole logon response.
RelogonResponses ==
    StatusResponses \cup
    { Resp("session", [error |-> "OK", message |-> 3, utc_timestamp |-> 8,
                       steamid |-> Sid(8), umqid |-> "U2"]) }

Fr(id, rel) == [steamid |-> id, relationship |-> rel]

ManyFriends == 2 * SUMMARIES_MAX + SUMMARIES_MAX \div 2

FriendsResponses ==
    { Resp("none", <<>>),
      Resp("empty", [friends |-> <<>>]),
      Resp("few", [friends |-> <<Fr(Sid(1), "friend"), Fr(Sid(2), "Friend"),
                                 Fr(Sid(1), "ignoredfriend"),
                                 Fr(Sid(3), "requestrecipient"),
                                 [relationship |-> "friend"],
                                 [steamid |-> Sid(4)]>>]) }

\* Friend lists longer than one summaries request holds: ManyFriends distinct
\* identities, and a list in which every identity occurs twice.
LongFriendsResponses ==
    { Resp("many", [friends |-> [i \in 1..ManyFriends |-> Fr(Sid(i), "friend")]]),
      Resp("many-dup", [friends |-> [i \in 1..(2 * ManyFriends) |->
                           Fr(Sid(((i - 1) % ManyFriends) + 1), "friend")]]) }

Player(id) ==
    [steamid |-> id, personaname |-> "nick", realname |-> "name",
     personastate |-> 1]

\* The answers to a summaries request that lists ids.
SummariesResponses(ids) ==
    { Resp("all", [players |-> [i \in 1..Len(ids) |-> Player(ids[i])]]),
      Resp("empty", [players |-> <<>>]),
      Resp("none", <<>>),
      Resp("rest", [players |-> [i \in 1..(Len(ids) - 1) |-> Player(ids[i + 1])]]),
      Resp("other", [players |-> <<[personaname |-> "anon"], Player(Sid(999))>>]) }

AuthResponses ==
    { Resp("ok", [success |-> TRUE,
                  oauth |-> [parse |-> TRUE, json |-> [oauth_token |-> "T1"]]]),
      Resp("no-token", [success |-> TRUE, oauth |-> [parse |-> TRUE, json |-> <<>>]]),
      Resp("bad-oauth", [success |-> TRUE, oauth |-> [parse |-> FALSE, json |-> <<>>]]),
      Resp("no-oauth", [success |-> TRUE]),
      Resp("captcha", [success |-> FALSE, captcha_needed |-> TRUE,
                       captcha_gid |-> "G1", message |-> "bad"]),
      Resp("captcha-plain", [success |-> FALSE, captcha_needed |-> TRUE,
                             message |-> "bad"]),
      Resp("guard", [success |-> FALSE, emailauth_needed |-> TRUE,
                     captcha_needed |-> TRUE, emailsteamid |-> "E1"]),
      Resp("rejected", [success |-> FALSE, message |-> "bad"]) }

RdirResponses ==
    { [Resp("cookie", <<>>) EXCEPT !.cookie = "S1", !.parse = FALSE],
      [Resp("no-cookie", <<>>) EXCEPT !.parse = FALSE] }

KeyResponses ==
    { \* a boolean success is no string: steam_json_str finds no value
      Resp("ok", [publickey_mod |-> "AB", publickey_exp |-> "01",
                  timestamp |-> "T1"]),
      Resp("refused", [success |-> "false"]),
      Resp("bad-exp", [publickey_mod |-> "01", publickey_exp |-> "zz"]),
      Resp("no-mod", [publickey_exp |-> "01"]) }

Chat(acc) == [m_unAccountID |-> acc, m_strMessage |-> "hi", m_tsTimestamp |-> 5]

ChatlogResponses ==
    { Resp("mixed", [array |-> <<Chat(steam_api_accountid_int(OwnId)), Chat(1),
                                 [m_strMessage |-> "anon"], Chat(2)>>]),
      Resp("empty", [array |-> <<>>]) }

SearchResponses ==
    { Resp("mixed", [results |-> <<[type |-> "user", steamid |-> Sid(1),
                                   matchingtext |-> "al"],
                                  [type |-> "group", steamid |-> Sid(2)],
                                  [type |-> "User"]>>]),
      Resp("none", <<>>) }

AcceptResponses == { Resp("ok", <<>>), Resp("error", [error_text |-> "denied"]) }

AddResponses ==
    { Resp("ok", [failed_invites_result |-> <<>>]),
      Resp("failed", [failed_invites_result |-> <<1>>]),
      Resp("none", <<>>) }

RawResponses ==
    { [Resp("true", <<>>) EXCEPT !.body = "true", !.parse = FALSE],
      [Resp("false", <<>>) EXCEPT !.body = "false", !.parse = FALSE],
      [Resp("nothing", <<>>) EXCEPT !.parse = FALSE] }

Responses(req) ==
    {TransportError} \cup
    CASE req.kind = "POLL"                         -> PollResponses \cup {BadBody}
      [] req.kind \in {"MESSAGE", "LOGOFF"}        -> StatusResponses \cup {BadBody}
      [] req.kind = "RELOGON"                      -> RelogonResponses \cup {BadBody}
      [] req.kind = "LOGON"                        -> LogonResponses \cup {BadBody}
      [] req.kind = "FRIENDS"                      -> FriendsResponses \cup {BadBody}
      [] req.kind = "SUMMARIES"                    -> SummariesResponses(req.ids) \cup {BadBody}
      [] req.kind = "SUMMARY"                      -> SummariesResponses(<<Sid(1)>>) \cup {BadBody}
      [] req.kind = "AUTH"                         -> AuthResponses \cup {BadBody}
      [] req.kind = "AUTH_RDIR"                    -> RdirResponses
      [] req.kind = "KEY"                          -> KeyResponses \cup {BadBody}
      [] req.kind = "CHATLOG"                      -> ChatlogResponses \cup {BadBody}
      [] req.kind = "FRIEND_SEARCH"                -> SearchResponses \cup {BadBody}
      [] req.kind = "FRIEND_ACCEPT"                -> AcceptResponses \cup {BadBody}
      [] req.kind = "FRIEND_ADD"                   -> AddResponses \cup {BadBody}
      [] req.kind \in {"FRIEND_IGNORE", "FRIEND_REMOVE"} -> RawResponses

(***************************************************************************)
(* Transport steps.                                                        *)
(***************************************************************************)
\* The queue hands its head to the network while it is not paused.
QueueSend ==
    /\ fault = "none"
    /\ ~http.paused
    /\ http.queue # <<>>
    /\ http' = [http EXCEPT !.queue = Tail(@),
                             !.reqs[Head(http.queue)].st = "flight"]
    /\ last' = [NoLast EXCEPT !.op = "send", !.c = Head(http.queue)[1],
                              !.req = Head(http.queue)]
    /\ UNCHANGED <<sata, api, nreq, log, calls, frees, fault>>

\* After the request's callback: the request is freed unless it was resent.
HttpReqDone(h, id) ==
    IF h.reqs[id].nofree THEN [h EXCEPT !.reqs[id].nofree = FALSE]
    ELSE steam_http_req_free(h, id)

\* A response (or transport error) arrives for a request in flight and the
\* transport runs the request's callback, steam_api_cb.
Deliver(id, resp) ==
    /\ fault = "none"
    /\ http.reqs[id].st = "flight"
    /\ LET c == http.reqs[id].data
           l == [NoLast EXCEPT !.op = "dispatch", !.c = c, !.type = sata[c].type,
                               !.req = id, !.resp = resp.tag,
                               !.sums0 = sata[c].sums, !.err0 = sata[c].err,
                               !.paused0 = http.paused]
       IN  IF sata[c].st # "live"
           THEN /\ fault' = "use-after-free"
                /\ last' = l
                /\ UNCHANGED <<sata, api, http, nreq, log, calls, frees>>
           ELSE LET w0 == World(c, sata[c])
                    w1 == IF http.reqs[id].kind = "SUMMARIES"
                          THEN [w0 EXCEPT !.log[Len(w0.log)].ans = resp.tag]
                          ELSE w0
                    w  == steam_api_cb(w1, resp)
                IN  /\ Len(w.log) <= MaxRounds
                    /\ Commit([w EXCEPT !.http = HttpReqDone(@, id)], l)

\* The user callbacks passed to the typed calls are non-null.
Funcs == {TRUE}

CallTypes ==
    {"CHATLOG", "FRIEND_SEARCH", "FRIENDS", "KEY", "LOGOFF", "LOGON", "POLL",
     "SUMMARY"}

Next ==
    \/ \E c \in Ctx, func \in Funcs, ok \in BOOLEAN : steam_api_auth(c, func, ok)
    \/ \E c \in Ctx, func \in Funcs, t \in DOMAIN IdTypes : steam_api_friend_op(c, t, func)
    \/ \E c \in Ctx, func \in Funcs, t \in CallTypes : steam_api_call(c, t, func)
    \/ \E c \in Ctx, func \in Funcs : steam_api_relogon(c, func)
    \/ \E c \in Ctx, func \in Funcs, m \in MessageTypes : steam_api_message(c, func, m)
    \/ QueueSend
    \/ \E id \in DOMAIN http.reqs : \E resp \in Responses(http.reqs[id]) : Deliver(id, resp)

Spec == Init /\ [][Next]_vars

(***************************************************************************)
(* Summary batching on its own: one friends call whose response holds more *)
(* identities than one summaries request may list.                         *)
(***************************************************************************)
BatchResponses(req) ==
    IF req.kind = "FRIENDS"
    THEN LongFriendsResponses
    ELSE {r \in SummariesResponses(req.ids) : r.tag \in {"all", "rest", "other", "empty"}}
         \cup {TransportError}

BatchCall == steam_api_call(1, "FRIENDS", TRUE)

BatchDeliver ==
    \E id \in DOMAIN http.reqs : \E resp \in BatchResponses(http.reqs[id]) :
        Deliver(id, resp)

InitBatch == Init /\ api = RestoredApi

NextBatch == BatchCall \/ BatchDeliver

SpecBatch == InitBatch /\ [][NextBatch]_vars

(***************************************************************************)
(* The enrichment loop on its own: friends calls and the summaries requests *)
(* that follow them, every request in flight being answered in the end.    *)
(* A request is a heap object the program tells from others by nothing but *)
(* its address: the answered request is freed, and the follow-up request   *)
(* is taken at its address, so a round that changes nothing in the context *)
(* leads back to the same state.                                           *)
(***************************************************************************)
\* The follow-up request of a dispatch takes the place of the answered one.
Recycle(w) ==
    IF w.nreq <= 2 THEN w
    ELSE LET old == <<w.c, w.nreq>>
             new == <<w.c, 2>>
         IN  [w EXCEPT !.http.reqs = (new :> @[old]) @@
                                     [i \in (DOMAIN @) \ {old} |-> @[i]],
                       !.s.req = new,
                       !.nreq  = 2,
                       !.log   = <<@[Len(@)]>>]

EnrichCall == \E c \in Ctx : steam_api_call(c, "FRIENDS", TRUE)

\* steam_api_cb run by the transport on the response to request id.
EnrichDeliver(id) ==
    /\ fault = "none"
    /\ id \in DOMAIN http.reqs
    /\ http.reqs[id].st = "flight"
    /\ sata[http.reqs[id].data].st = "live"
    /\ \E resp \in Responses(http.reqs[id]) :
          LET c  == http.reqs[id].data
              l  == [NoLast EXCEPT !.op = "dispatch", !.c = c, !.type = sata[c].type,
                                  !.req = id, !.resp = resp.tag,
                                  !.sums0 = sata[c].sums, !.err0 = sata[c].err,
                                  !.paused0 = http.paused]
              w0 == World(c, sata[c])
              w1 == IF http.reqs[id].kind = "SUMMARIES"
                    THEN [w0 EXCEPT !.log[Len(w0.log)].ans = resp.tag]
                    ELSE w0
          IN  \E w \in {Recycle([steam_api_cb(w1, resp) EXCEPT
                                     !.http = HttpReqDone(@, id)])} :
                 Commit(w, l)

EnrichIds == {<<c, n>> : c \in Ctx, n \in 1..2}

NextEnrich == EnrichCall \/ \E id \in EnrichIds : EnrichDeliver(id)

\* Every request in flight is answered in the end.
FairEnrich == \A id \in EnrichIds : WF_vars(EnrichDeliver(id))

SpecEnrich == InitBatch /\ [][NextEnrich]_vars /\ FairEnrich

(***************************************************************************)
(* Properties.                                                             *)
(***************************************************************************)
Range(f) == {f[i] : i \in DOMAIN f}
PendingIds(s) == {s.sums[k].steamid : k \in 1..Len(s.sums)}
Dispatched == last.op = "dispatch" /\ last.st # "none"
NotLoggedOn == {"expired", "expired-lc"}

\* C1: the user callback of every call context is invoked exactly once over
\* the life of the context: never twice, and once by the time it is released.
C1_CallbackExactlyOnce ==
    \A c \in Ctx :
        /\ calls[c] <= 1
        /\ sata[c].st = "freed" => calls[c] = 1

\* C2: the user callback is never invoked while the context's pending-summary
\* list is non-empty.
C2_NoCallbackWhilePending ==
    (Dispatched /\ last.ev.ncall > 0) => last.ev.cbsums = 0

\* C3: a poll or message response parsed to "Not Logged On" (any letter case)
\* sets LOGON_EXPIRED on the triggering context, pauses the queue and puts the
\* same request back for a resend, in that dispatch; the context stays live.
C3_ExpiryStep ==
    (/\ Dispatched
     /\ last.type \in {"POLL", "MESSAGE"}
     /\ last.ev.parsed = last.type
     /\ last.resp \in NotLoggedOn)
    => /\ sata[last.c].st = "live"
       /\ last.ev.nfree = 0
       /\ sata[last.c].err.kind = "LOGON_EXPIRED"
       /\ http.paused
       /\ sata[last.c].req = last.req
       /\ last.req \in DOMAIN http.reqs
       /\ http.reqs[last.req].st = "queued"
       /\ last.req \in Range(http.queue)

C3_Witness ==
    /\ Dispatched
    /\ last.type = "MESSAGE"
    /\ last.ev.parsed = "MESSAGE"
    /\ last.resp = "expired"
    /\ ~last.paused0
    /\ http.paused
    /\ sata[last.c].st = "live"

\* C4: the dispatch that handles a "Not Logged On" poll response does not
\* invoke the caller's poll callback.
C4_NoCallbackOnExpiry ==
    (Dispatched /\ last.type = "POLL" /\ last.ev.expired) => last.ev.ncall = 0

\* C5: when the resent request of a session-expired call completes with an
\* error-free response, the callback gets that response's outcome, no error.
C5_ResendOutcome ==
    (/\ Dispatched
     /\ last.type \in {"POLL", "MESSAGE"}
     /\ last.err0.kind = "LOGON_EXPIRED"
     /\ last.resp \in {"text", "ok"})
    => /\ last.ev.ncall = 1
       /\ last.ev.cberr = NoErr

\* C6: after a relogon response is dispatched the queue is unpaused if and
\* only if the relogon succeeded.
C6_UnpausedIffRelogonOk ==
    (Dispatched /\ last.type = "RELOGON" /\ last.paused0)
    => (~http.paused <=> last.ev.cberr = NoErr)

\* C7: every call context is released exactly once: never twice, never
\* dispatched after its release, and a live context always has the request
\* whose dispatch will release it.
C7_ReleasedExactlyOnce ==
    /\ fault # "use-after-free"
    /\ \A c \in Ctx :
        /\ frees[c] <= 1
        /\ sata[c].st = "live" => sata[c].req \in DOMAIN http.reqs

\* C8: no summaries request lists more than SUMMARIES_MAX identities, and none
\* lists an identity twice.
C8_BatchCapAndDedup ==
    \A id \in DOMAIN http.reqs :
        http.reqs[id].kind = "SUMMARIES"
        => /\ Len(http.reqs[id].ids) <= SUMMARIES_MAX
           /\ Cardinality(Range(http.reqs[id].ids)) = Len(http.reqs[id].ids)
           /\ Len(http.reqs[id].ids) >= 1

C8_Witness ==
    \E id \in DOMAIN http.reqs :
        /\ http.reqs[id].kind = "SUMMARIES"
        /\ Len(http.reqs[id].ids) = SUMMARIES_MAX
        /\ Len(sata[id[1]].sums) > Cardinality(PendingIds(sata[id[1]]))
        /\ Cardinality(PendingIds(sata[id[1]])) > SUMMARIES_MAX

\* The sizes of the summaries requests of ManyFriends distinct identities.
ManySizes == <<SUMMARIES_MAX, SUMMARIES_MAX, ManyFriends - 2 * SUMMARIES_MAX>>

\* C9: with ManyFriends (250) distinct identities pending on a context and
\* every summaries request answered with all the identities it listed,
\* exactly three requests are issued, of 100, 100 and 50 identities, and then
\* the callback fires.
C9_ThreeBatches ==
    \A c \in Ctx :
        (/\ log[c] # <<>>
         /\ log[c][1].pend = ManyFriends
         /\ log[c][1].uniq = ManyFriends
         /\ \A k \in 1..(Len(log[c]) - 1) : log[c][k].ans = "all"
         /\ log[c][Len(log[c])].ans \in {"all", "pending"})
        => /\ Len(log[c]) <= 3
           /\ \A k \in 1..Len(log[c]) : log[c][k].n = ManySizes[k]
           /\ log[c][Len(log[c])].ans = "pending"
                => (sata[c].st = "live" /\ calls[c] = 0)
           /\ log[c][Len(log[c])].ans = "all"
                => (Len(log[c]) = 3 /\ sata[c].st = "freed" /\ calls[c] = 1)

C9_Witness ==
    /\ Len(log[1]) = 3
    /\ log[1][1].uniq = ManyFriends
    /\ \A k \in 1..3 : log[1][k].ans = "all" /\ log[1][k].n = ManySizes[k]
    /\ calls[1] = 1
    /\ sata[1].st = "freed"

\* A summaries response listing identity x is dispatched to context c while
\* x is pending on c and on another live context d.
SharedAnswer(c, d, x) ==
    /\ c # d
    /\ sata[c].st = "live" /\ sata[d].st = "live"
    /\ x \in PendingIds(sata[c]) /\ x \in PendingIds(sata[d])
    /\ last'.op = "dispatch" /\ last'.c = c
    /\ last'.ev.parsed = "summaries" /\ last'.resp = "all"
    /\ x \in Range(http.reqs[last'.req].ids)

Body(rs, tag) == (CHOOSE r \in rs : r.tag = tag).json

\* The step dispatches a response to a call of the given type and runs the
\* type's parser on it.
Parses(type) ==
    /\ last'.op = "dispatch"
    /\ last'.type = type
    /\ last'.ev.parsed = type

\* C11: a poll response that passes the error gate and whose messagelast is
\* the session's cursor produces no message, leaves the cursor as it is and
\* registers no identity for enrichment, whatever its messages array holds.
C11_SeenCursorNoMessages ==
    [][(/\ Parses("POLL")
        /\ ~PollGate(Body(PollResponses, last'.resp))
        /\ JHas(Body(PollResponses, last'.resp), "messagelast")
        /\ Body(PollResponses, last'.resp).messagelast = api.lmid)
       => /\ api'.lmid = api.lmid
          /\ last'.ev.ncall = 1
          /\ last'.ev.cbrdata = <<>>
          /\ last'.ev.cbsums = 0
          /\ last'.sums1 = <<>>
          /\ log' = log]_vars

\* The body "mixed", which holds messages of other identities, was parsed
\* without error and gave no message: the cursor was already at its messagelast.
C11_Witness ==
    /\ Dispatched
    /\ last.type = "POLL" /\ last.ev.parsed = "POLL"
    /\ last.resp = "mixed"
    /\ last.ev.ncall = 1 /\ last.ev.cberr = NoErr
    /\ last.ev.cbrdata = <<>>
    /\ api.lmid = Body(PollResponses, "mixed").messagelast

\* The number of messages a poll body carries.
NMessages(json) == IF JHas(json, "messages") THEN Len(json.messages) ELSE 0

\* The callback of the latest dispatch was given the timeout-floor error.
FloorError ==
    last.ev.cberr.kind = "POLL" /\ last.ev.cberr.msg = "Timeout too low"

\* A poll response was parsed and passed the error gate.
PollPassedGate ==
    /\ Dispatched
    /\ last.type = "POLL" /\ last.ev.parsed = "POLL"
    /\ ~PollGate(Body(PollResponses, last.resp))

\* C12 as stated: past the gate, a poll response with a sectimeout below
\* STEAM_API_TIMEOUT and no message is rejected with the timeout-floor error,
\* and a response that carries a message is never rejected with it.
C12_FloorOnlyWhenEmpty ==
    PollPassedGate
    => LET json == Body(PollResponses, last.resp) IN
       /\ (/\ JHas(json, "sectimeout")
           /\ json.sectimeout < STEAM_API_TIMEOUT
           /\ NMessages(json) = 0) => FloorError
       /\ FloorError => NMessages(json) = 0

\* C12 amended: past the gate, a poll response is rejected with the
\* timeout-floor error exactly when it has no integer sectimeout, or has one
\* below STEAM_API_TIMEOUT and carries no message.
C12_FloorOrMissing ==
    PollPassedGate
    => LET json == Body(PollResponses, last.resp) IN
       FloorError <=> \/ ~JHas(json, "sectimeout")
                      \/ (/\ json.sectimeout < STEAM_API_TIMEOUT
                          /\ NMessages(json) = 0)

\* A response with a message and no sectimeout was rejected.
C12_Witness ==
    /\ PollPassedGate
    /\ last.resp = "no-timeout"
    /\ NMessages(Body(PollResponses, "no-timeout")) > 0
    /\ FloorError
    /\ last.ev.ncall = 1

\* The error strings the poll gate lets through, NULL for an absent one.
NonFatal == {NULLSTR, "OK", "ok", "Ok", "Timeout", "timeout", "TIMEOUT"}

\* C13: at the poll gate an error string that is absent, "Timeout" or "OK"
\* (any letter case) sets no error and parsing goes on; "Not Logged On" takes
\* the relogin path; any other string fails the call with a POLL error
\* carrying the string, the cursor and the result list left as they were.
C13_PollGate ==
    [][Parses("POLL")
       => LET str == steam_json_str(Body(PollResponses, last'.resp), "error")
              ev  == last'.ev
          IN  /\ str \in NonFatal
                 => /\ ~ev.expired
                    /\ ev.cberr # NoErr
                         => (ev.cberr.kind = "POLL" /\ ev.cberr.msg = "Timeout too low")
              /\ str \in {"Not Logged On", "not logged on"}
                 => /\ ev.expired
                    /\ ev.resent = last'.req
                    /\ api' = api
              /\ str \notin NonFatal \cup {"Not Logged On", "not logged on"}
                 => /\ ~ev.expired
                    /\ ev.ncall = 1
                    /\ ev.cberr.kind = "POLL" /\ ev.cberr.msg = str
                    /\ ev.cbrdata = <<>>
                    /\ api' = api]_vars

\* A poll response with the error "Timeout" was parsed and set no error.
C13_Witness ==
    /\ Dispatched
    /\ last.type = "POLL" /\ last.ev.parsed = "POLL"
    /\ last.resp = "timeout"
    /\ steam_json_str(Body(PollResponses, "timeout"), "error") = "Timeout"
    /\ last.ev.ncall = 1
    /\ last.ev.cberr = NoErr

\* The senders of a sequence of messages, in order.
Senders(messages) == [i \in 1..Len(messages) |-> messages[i].smry.steamid]

\* The entries of a chat log that carry a sender account id other than own.
ChatOthers(arr, own) ==
    SelectSeq(arr, LAMBDA e : JHas(e, "m_unAccountID") /\ e.m_unAccountID # own)

\* A chatlog response was parsed for a session that has an identity.
ChatlogParsed ==
    /\ Dispatched
    /\ last.type = "CHATLOG" /\ last.ev.parsed = "CHATLOG"
    /\ api.steamid # NULLID

\* C14: the chatlog result holds exactly the response entries whose sender
\* account id is not the session's own, in response order, each sender given
\* as account id + STEAM_API_STEAMID; no entry of the session's own appears.
C14_ChatlogOthersOnly ==
    ChatlogParsed
    => LET others == ChatOthers(Body(ChatlogResponses, last.resp).array,
                                api.steamid - STEAM_API_STEAMID)
       IN  /\ last.ev.ncall = 1
           /\ Senders(last.ev.cbrdata)
                = [i \in 1..Len(others) |-> others[i].m_unAccountID + STEAM_API_STEAMID]
           /\ \A i \in 1..Len(last.ev.cbrdata) :
                 last.ev.cbrdata[i].smry.steamid # api.steamid

\* A chat log holding an entry of the session's own and two of others was
\* parsed, and gave the two.
C14_Witness ==
    /\ ChatlogParsed
    /\ last.resp = "mixed"
    /\ \E i \in 1..Len(Body(ChatlogResponses, "mixed").array) :
          LET e == Body(ChatlogResponses, "mixed").array[i] IN
          JHas(e, "m_unAccountID") /\ e.m_unAccountID + STEAM_API_STEAMID = api.steamid
    /\ Len(last.ev.cbrdata) = 2

\* The entries of a friends array that are kept: a relationship of "friend"
\* or "ignoredfriend" in any letter case, and a steamid.
KeptFriends(json) ==
    IF ~JHas(json, "friends") THEN <<>>
    ELSE SelectSeq(json.friends, LAMBDA e :
             /\ JHas(e, "relationship")
             /\ Fold(e.relationship) \in {"friend", "ignoredfriend"}
             /\ JHas(e, "steamid") /\ e.steamid # NULLID)

\* How often the identity x occurs in a sequence of entries.
Count(seq, x) == Cardinality({k \in 1..Len(seq) : seq[k].steamid = x})

\* A friends response was parsed.
FriendsParsed ==
    /\ Dispatched
    /\ last.type = "FRIENDS" /\ last.ev.parsed = "FRIENDS"

\* C15 as stated: the kept entries are deduplicated by identity, so that no
\* identity is in the result list or in the pending list twice.
C15_FriendsDeduplicated ==
    (FriendsParsed /\ sata[last.c].st = "live")
    => /\ \A k \in 1..Len(sata[last.c].rdata) :
             Count(sata[last.c].rdata, sata[last.c].rdata[k].steamid) = 1
       /\ \A k \in 1..Len(sata[last.c].sums) :
             Count(sata[last.c].sums, sata[last.c].sums[k].steamid) = 1

\* C15 amended: the result list holds one summary for each response entry
\* that has a relationship of "friend" or "ignoredfriend" (any letter case)
\* and a steamid, and for no other; each of these summaries is in the result
\* list once and registered for enrichment once, as the same instance; an
\* identity the response holds twice is kept twice.
C15_FriendsKept ==
    FriendsParsed
    => LET kept == KeptFriends(Body(FriendsResponses \cup LongFriendsResponses,
                                    last.resp))
           s    == sata[last.c]
       IN  IF kept = <<>>
           THEN last.ev.ncall = 1 /\ last.ev.cbrdata = <<>> /\ last.sums1 = <<>>
           ELSE /\ s.st = "live" /\ last.ev.ncall = 0
                /\ Len(s.rdata) = Len(kept)
                /\ \A k \in 1..Len(kept) :
                      /\ s.rdata[k].steamid = kept[Len(kept) + 1 - k].steamid
                      /\ Count(s.rdata, s.rdata[k].steamid)
                            = Count(kept, s.rdata[k].steamid)
                /\ Len(s.sums) = Len(s.rdata)
                /\ \A k \in 1..Len(s.rdata) :
                      /\ Cardinality({j \in 1..Len(s.rdata) : s.rdata[j].h = s.rdata[k].h}) = 1
                      /\ Cardinality({j \in 1..Len(s.sums) : s.sums[j].h = s.rdata[k].h}) = 1
                      /\ s.sums[k].steamid = s.rdata[k].steamid

\* A friends response holding an identity twice, and entries to skip, was
\* parsed: the identity is in the result list twice.
C15_Witness ==
    /\ FriendsParsed
    /\ last.resp = "few"
    /\ sata[last.c].st = "live"
    /\ \E k \in 1..Len(sata[last.c].rdata) :
          Count(sata[last.c].rdata, sata[last.c].rdata[k].steamid) = 2
    /\ Len(sata[last.c].rdata) < Len(Body(FriendsResponses, "few").friends)

\* The error an unsuccessful auth response asks for.
AuthFailure(json) ==
    [kind |-> IF JHas(json, "emailauth_needed") /\ json.emailauth_needed
              THEN "AUTH_GUARD"
              ELSE IF JHas(json, "captcha_needed") /\ json.captcha_needed
              THEN "AUTH_CAPTCHA"
              ELSE "AUTH",
     msg  |-> IF JHas(json, "message") /\ json.message # "" THEN json.message
              ELSE "Failed to authenticate",
     pfx  |-> <<"Authentication">>]

\* C16: an auth response's captcha_gid and emailsteamid are recorded on the
\* credential module whether or not success is true; without success the
\* callback gets guard-required, captcha-required or the generic error (in
\* that order of preference) with the server's message or a default, the
\* token stays and no request is issued.  The response
\* {"success":false,"captcha_needed":true,"message":"bad"} records nothing and
\* gives captcha-required, "Authentication: bad".
C16_AuthResponse ==
    [][Parses("AUTH")
       => LET json == Body(AuthResponses, last'.resp)
              ev   == last'.ev
          IN  /\ api'.auth.cgid = IF JHas(json, "captcha_gid") THEN json.captcha_gid
                                  ELSE api.auth.cgid
              /\ api'.auth.esid = IF JHas(json, "emailsteamid") THEN json.emailsteamid
                                  ELSE api.auth.esid
              /\ ~(JHas(json, "success") /\ json.success)
                 => /\ ev.ncall = 1
                    /\ ev.cberr = AuthFailure(json)
                    /\ api'.token = api.token
                    /\ nreq' = nreq
                    /\ sata'[last'.c].st = "freed"
              /\ last'.resp = "captcha-plain"
                 => /\ api'.auth = api.auth
                    /\ ev.cberr = [kind |-> "AUTH_CAPTCHA", msg |-> "bad",
                                   pfx |-> <<"Authentication">>]]_vars

\* An unsuccessful auth response with a captcha_gid was parsed: the id is
\* on the credential module and the callback got captcha-required.
C16_Witness ==
    /\ Dispatched
    /\ last.type = "AUTH" /\ last.ev.parsed = "AUTH"
    /\ last.resp = "captcha"
    /\ api.auth.cgid = Body(AuthResponses, "captcha").captcha_gid
    /\ last.ev.ncall = 1
    /\ last.ev.cberr.kind = "AUTH_CAPTCHA"

\* C17: every error handed to a user callback carries the label of the
\* call's type as its prefix, on every path to the callback.
C17_ErrorsPrefixed ==
    (last.ev.ncall > 0 /\ last.ev.cberr # NoErr)
    => /\ last.ev.cberr.pfx # <<>>
       /\ \E type \in ApiTypes : Head(last.ev.cberr.pfx) = steam_api_type_str(type)

\* The step dispatches a response whose parser ran and left an error other
\* than the expiry of the session.
ParserError ==
    /\ last'.op = "dispatch"
    /\ last'.ev.parsed \in ApiTypes
    /\ last'.ev.ncall = 1
    /\ last'.ev.cberr # NoErr
    /\ last'.ev.cberr.kind # "LOGON_EXPIRED"

\* C18: a dispatch that ends in a parser-level error other than the expiry
\* of the session changes no other call context and no other request, and
\* leaves the pause flag of the queue as it was.
C18_ParserErrorLocal ==
    [][ParserError
       => /\ \A d \in Ctx \ {last'.c} : sata'[d] = sata[d]
          /\ \A id \in DOMAIN http.reqs \ {last'.req} :
                id \in DOMAIN http'.reqs /\ http'.reqs[id] = http.reqs[id]
          /\ http'.queue = http.queue
          /\ http'.paused = http.paused]_vars

\* C19 as stated: the session's attributes change only in the dispatch of a
\* response of an auth, logon or relogon call.
C19_SessionByAuthLogonOnly ==
    [][(last'.op = "dispatch"
        /\ last'.type \notin {"AUTH", "AUTH_RDIR", "LOGON", "RELOGON"})
       => api' = api]_vars

\* C19 amended: the session's attributes change only in the dispatch of a
\* response: of an auth call (captcha and email ids, token; the cookie id
\* in its redirect), of a logon call (cursor, timestamp, own identity,
\* poll-session id), of a poll call (cursor) and of a key call (credential
\* state).  A relogon response and the responses of all other calls change
\* no attribute of the session, and neither does a typed call.
C19_SessionWriters ==
    [][/\ last'.op # "dispatch" => api' = api
       /\ last'.op = "dispatch"
          => CASE last'.type = "AUTH" ->
                    [api' EXCEPT !.auth = api.auth, !.token = api.token] = api
               [] last'.type = "AUTH_RDIR" ->
                    [api' EXCEPT !.sessid = api.sessid] = api
               [] last'.type = "LOGON" ->
                    [api' EXCEPT !.lmid = api.lmid, !.tstamp = api.tstamp,
                                 !.steamid = api.steamid, !.umqid = api.umqid] = api
               [] last'.type = "POLL" ->
                    [api' EXCEPT !.lmid = api.lmid] = api
               [] last'.type = "KEY" ->
                    [api' EXCEPT !.auth = api.auth] = api
               [] OTHER -> api' = api]_vars

\* A poll response was parsed and gave a message: the cursor has moved to
\* its messagelast.
C19_Witness ==
    /\ Dispatched
    /\ last.type = "POLL" /\ last.ev.parsed = "POLL"
    /\ last.resp = "text"
    /\ last.ev.cbrdata # <<>>
    /\ api.lmid = Body(PollResponses, "text").messagelast
    /\ api.lmid # FreshApi.lmid

(***************************************************************************)
(* The identity conversions, applied to every integer of the width.        *)
(***************************************************************************)
InitIds ==
    /\ sata  = [c \in Ctx |-> NoData("none")]
    /\ api   = FreshApi
    /\ http  = [paused |-> FALSE, queue |-> <<>>, reqs |-> <<>>,
                sessionid |-> NULLSTR]
    /\ nreq  = [c \in Ctx |-> 0]
    /\ log   = [c \in Ctx |-> <<>>]
    /\ calls = [c \in Ctx |-> 0]
    /\ frees = [c \in Ctx |-> 0]
    /\ fault = "none"
    /\ \E x \in Int64 : last = [op |-> "int", x |-> x, y |-> x, back |-> x]

\* steam_api_accountid_int(x), and steam_api_steamid_int of the result.
AccountidOf ==
    /\ last.op = "int"
    /\ last' = [op   |-> "accountid", x |-> last.x,
                y    |-> steam_api_accountid_int(last.x),
                back |-> steam_api_steamid_int(steam_api_accountid_int(last.x))]
    /\ UNCHANGED <<sata, api, http, nreq, log, calls, frees, fault>>

\* steam_api_steamid_int(x), and steam_api_accountid_int of the result.
SteamidOf ==
    /\ last.op = "int"
    /\ last' = [op   |-> "steamid", x |-> last.x,
                y    |-> steam_api_steamid_int(last.x),
                back |-> steam_api_accountid_int(steam_api_steamid_int(last.x))]
    /\ UNCHANGED <<sata, api, http, nreq, log, calls, frees, fault>>

NextIds == AccountidOf \/ SteamidOf

SpecIds == InitIds /\ [][NextIds]_vars

\* C20: the identity conversions are exact inverses of each other on every
\* integer of the width, in arithmetic modulo 2^width, and the steamid is
\* the account id plus STEAM_API_STEAMID.
C20_IdentityRoundTrip ==
    /\ last.op = "accountid"
       => /\ last.back = last.x
          /\ (last.x - (last.y + STEAM_API_STEAMID)) % (2 ^ IntWidth) = 0
    /\ last.op = "steamid"
       => /\ last.back = last.x
          /\ (last.y - (last.x + STEAM_API_STEAMID)) % (2 ^ IntWidth) = 0
    /\ last.op \in {"accountid", "steamid"} => last.y \in Int64

\* An identity so low that subtracting the base wraps was converted.
C20_Witness ==
    /\ last.op = "accountid"
    /\ last.x - STEAM_API_STEAMID < -(2 ^ (IntWidth - 1))
    /\ last.y > 0
    /\ last.back = last.x

\* The step creates a relogon request only as the caller's relogon call, and
\* sends no relogon request a second time.
RelogonOnlyByCaller ==
    /\ \A id \in DOMAIN http'.reqs \ DOMAIN http.reqs :
          http'.reqs[id].kind = "RELOGON"
          => last'.op = "call" /\ last'.type = "RELOGON"
    /\ \A id \in DOMAIN http'.reqs \cap DOMAIN http.reqs :
          http.reqs[id].kind = "RELOGON" => http'.reqs[id] = http.reqs[id]

\* The latest step dispatched a relogon response and the relogon failed.
RelogonFailed ==
    /\ Dispatched
    /\ last.type = "RELOGON"
    /\ last.ev.ncall = 1
    /\ last.ev.cberr # NoErr

\* C21: the engine sends no relogon request on its own, neither on a "Not
\* Logged On" response nor on a failed relogon, and after a failed relogon
\* it does not send the request of an expired call again until the caller
\* acts.
C21_NoRetryOnItsOwn ==
    [][/\ RelogonOnlyByCaller
       /\ RelogonFailed
          => ~(last'.op = "send" /\ sata'[last'.c].err.kind = "LOGON_EXPIRED")]_vars

\* Two errors of the same kind and base message (the prefixes apart).
SameError(e, f) == e.kind = f.kind /\ e.msg = f.msg

\* C22: the first error of a call context wins: once the context holds an
\* error, no later step replaces its kind or base message, and the callback
\* is handed that error.
C22_FirstErrorWins ==
    [][\A c \in Ctx :
          (sata[c].st = "live" /\ sata[c].err # NoErr)
          => /\ sata'[c].st = "live" => SameError(sata'[c].err, sata[c].err)
             /\ (last'.op = "dispatch" /\ last'.c = c /\ last'.ev.ncall > 0)
                => SameError(last'.ev.cberr, sata[c].err)]_vars

\* The resent request of an expired call ended in a transport error, and
\* the callback got the expiry.
C22_Witness ==
    /\ Dispatched
    /\ last.err0.kind = "LOGON_EXPIRED"
    /\ last.resp = "transport-error"
    /\ last.ev.ncall = 1
    /\ last.ev.cberr.kind = "LOGON_EXPIRED"

\* C23: when the transport reports an error for a request, the dispatcher
\* makes it the call's error, runs neither the parser of the type nor the
\* reconciliation of summaries, leaves the session and the pause flag of the
\* queue as they were, and hands the callback that error.
C23_TransportError ==
    [][(/\ last'.op = "dispatch"
        /\ last'.st # "none"
        /\ last'.resp = "transport-error")
       => /\ last'.ev.parsed = "none"
          /\ last'.ev.cbsums = Len(last'.sums0)
          /\ api' = api
          /\ http'.paused = http.paused
          /\ last'.ev.ncall = 1
          /\ last'.ev.cberr.kind = "HTTP"]_vars

\* The requests the transport holds for the call context c.
ReqsOf(c) == {id \in DOMAIN http.reqs : http.reqs[id].data = c}

\* C24: every live call context has exactly one transport request, the one
\* its req field names, and no second request of the context is outstanding.
C24_OneRequestPerContext ==
    fault = "none"
    => \A c \in Ctx :
          sata[c].st = "live" => ReqsOf(c) = {sata[c].req}

\* The session attributes a logon response holds.
SessionOf(json) ==
    [lmid    |-> IF JHas(json, "message") THEN json.message ELSE 0,
     tstamp  |-> IF JHas(json, "utc_timestamp") THEN json.utc_timestamp ELSE 0,
     steamid |-> IF JHas(json, "steamid") THEN json.steamid ELSE NULLID]

\* The step parses a response of the given type, from the responses rs, whose
\* error is "OK" in some letter case.
ParsesOk(type, rs) ==
    /\ Parses(type)
    /\ JHas(Body(rs, last'.resp), "error")
    /\ Body(rs, last'.resp).error \in {"OK", "ok", "Ok"}

\* C25 as stated: a logon response with the error "OK", and a relogon
\* response with the error "OK" that holds a cursor, set the session's cursor,
\* timestamp and identity from the response.
C25_LogonAndRelogonSetSession ==
    [][/\ ParsesOk("LOGON", LogonResponses)
          => [lmid |-> api'.lmid, tstamp |-> api'.tstamp, steamid |-> api'.steamid]
                = SessionOf(Body(LogonResponses, last'.resp))
       /\ (ParsesOk("RELOGON", RelogonResponses)
           /\ JHas(Body(RelogonResponses, last'.resp), "message"))
          => [lmid |-> api'.lmid, tstamp |-> api'.tstamp, steamid |-> api'.steamid]
                = SessionOf(Body(RelogonResponses, last'.resp))]_vars

\* C25 amended: a logon response with the error "OK" sets the session's
\* cursor, timestamp, identity and poll-session id from the response; a
\* relogon response with the error "OK" unpauses the queue and leaves the
\* session as it was; a logon response with another error or none fails with
\* the LOGON error and leaves the session as it was.
C25_LogonSetsSession ==
    [][/\ ParsesOk("LOGON", LogonResponses)
          => /\ [lmid |-> api'.lmid, tstamp |-> api'.tstamp, steamid |-> api'.steamid]
                   = SessionOf(Body(LogonResponses, last'.resp))
             /\ api'.umqid = steam_json_str(Body(LogonResponses, last'.resp), "umqid")
             /\ last'.ev.cberr = NoErr
       /\ ParsesOk("RELOGON", RelogonResponses)
          => /\ api' = api
             /\ ~http'.paused
             /\ last'.ev.cberr = NoErr
       /\ (Parses("LOGON") /\ ~ParsesOk("LOGON", LogonResponses))
          => /\ api' = api
             /\ last'.ev.ncall = 1
             /\ last'.ev.cberr.kind = "LOGON"]_vars

\* A relogon response holding a cursor, a timestamp and an identity was
\* parsed without error: the queue is unpaused, the session is not that of
\* the response.
C25_Witness ==
    /\ Dispatched
    /\ last.type = "RELOGON" /\ last.ev.parsed = "RELOGON"
    /\ last.resp = "session"
    /\ last.ev.cberr = NoErr
    /\ last.paused0 /\ ~http.paused
    /\ api.lmid # SessionOf(Body(RelogonResponses, "session")).lmid
    /\ api.steamid # SessionOf(Body(RelogonResponses, "session")).steamid

\* C26: whenever no dispatch is running, every live call context has the
\* suppress-callback and the keep-alive flag clear.
C26_FlagsClear ==
    fault = "none"
    => \A c \in Ctx :
          sata[c].st = "live" => sata[c].flags \cap {"NOCALL", "NOFREE"} = {}

\* C26, what follows from it: a response dispatched for a context invokes the
\* callback and releases the context, unless the dispatch itself issued a
\* follow-up request or resent the request.
C26_NextDispatchCompletes ==
    [][(last'.op = "dispatch" /\ last'.st # "none" /\ fault' = "none")
       => LET c == last'.c
              followup == nreq'[c] = nreq[c] + 1
              resent == last'.ev.resent # NOREQ
          IN  /\ last'.ev.ncall = 0 => followup
              /\ last'.ev.nfree = 0 => followup \/ resent
              /\ last'.ev.ncall <= 1 /\ last'.ev.nfree <= 1]_vars

\* A dispatch suppressed the callback, kept the context and issued a
\* follow-up request; the context is live with both flags clear.
C26_Witness ==
    /\ Dispatched
    /\ fault = "none"
    /\ last.ev.ncall = 0 /\ last.ev.nfree = 0
    /\ sata[last.c].st = "live"
    /\ nreq[last.c] = 2
    /\ sata[last.c].flags \cap {"NOCALL", "NOFREE"} = {}

\* C27: the parser of a context's type runs only on a response dispatched
\* while the pending list is empty; a response without transport or syntax
\* error dispatched while the pending list is non-empty is reconciled, not
\* parsed by the type's parser, and the result list keeps its length.
C27_ParserOnlyWhenNothingPending ==
    [][(last'.op = "dispatch" /\ last'.st # "none")
       => LET c == last'.c IN
          /\ last'.ev.parsed \notin {"none", "summaries"}
             => sata[c].sums = <<>> /\ last'.ev.parsed = sata[c].type
          /\ (sata[c].sums # <<>> /\ last'.resp \notin {"transport-error", "unparsable"})
             => /\ last'.ev.parsed = "summaries"
                /\ sata'[c].st = "live" => Len(sata'[c].rdata) = Len(sata[c].rdata)
                /\ last'.ev.ncall = 1 => Len(last'.ev.cbrdata) = Len(sata[c].rdata)]_vars

\* A summaries response arrived for a friends context whose pending list was
\* non-empty, and was reconciled.
C27_Witness ==
    /\ Dispatched
    /\ last.type = "FRIENDS"
    /\ last.sums0 # <<>>
    /\ last.ev.parsed = "summaries"
    /\ last.ev.ncall = 1
    /\ Len(last.ev.cbrdata) > 0

\* The identities a players array returns, and the first player object of one.
Returned(players) ==
    {players[i].steamid : i \in {j \in 1..Len(players) : JHas(players[j], "steamid")}}

PlayerOf(players, id) ==
    players[CHOOSE i \in 1..Len(players) :
               /\ JHas(players[i], "steamid") /\ players[i].steamid = id
               /\ \A j \in 1..(i - 1) :
                     ~(JHas(players[j], "steamid") /\ players[j].steamid = id)]

\* The summary object of a result entry.
SmryOf(entry) == IF "smry" \in DOMAIN entry THEN entry.smry ELSE entry

\* The summary holds the profile fields of the player object.
HasProfile(smry, pl) ==
    /\ smry.nick     = (IF JHas(pl, "personaname") THEN pl.personaname ELSE NULLSTR)
    /\ smry.fullname = (IF JHas(pl, "realname") THEN pl.realname ELSE NULLSTR)
    /\ smry.game     = (IF JHas(pl, "gameextrainfo") THEN pl.gameextrainfo ELSE NULLSTR)
    /\ smry.server   = (IF JHas(pl, "gameserverip") THEN pl.gameserverip ELSE NULLSTR)
    /\ smry.state    = (IF JHas(pl, "personastate") THEN pl.personastate ELSE 0)

\* C28: after a summaries response with a non-empty players array is
\* reconciled, no pending entry has a returned identity, every summary whose
\* entry was removed holds the returned profile fields, and the entries of
\* identities that were not returned stay pending, and their summaries as
\* they were.
C28_Reconciled ==
    [][(/\ last'.op = "dispatch" /\ last'.st # "none"
        /\ last'.ev.parsed = "summaries"
        /\ last'.resp \in {"all", "rest", "other"}
        /\ Body(SummariesResponses(http.reqs[last'.req].ids), last'.resp).players # <<>>)
       => LET c       == last'.c
              players == Body(SummariesResponses(http.reqs[last'.req].ids),
                              last'.resp).players
              ret     == Returned(players)
              sums0   == sata[c].sums
              gone    == {sums0[k].h : k \in {j \in 1..Len(sums0) :
                                                 sums0[j].steamid \in ret}}
              rest    == SelectSeq(sums0, LAMBDA e : e.steamid \notin ret)
              rd0     == sata[c].rdata
              rd1     == IF sata'[c].st = "live" THEN sata'[c].rdata
                         ELSE last'.ev.cbrdata
          IN  /\ rest # <<>> => sata'[c].st = "live" /\ sata'[c].sums = rest
              /\ rest = <<>> => sata'[c].st # "live" /\ last'.ev.ncall = 1
              /\ Len(rd1) = Len(rd0)
              /\ \A i \in 1..Len(rd0) :
                    IF rd0[i].h \in gone
                    THEN /\ SmryOf(rd1[i]).steamid = SmryOf(rd0[i]).steamid
                         /\ HasProfile(SmryOf(rd1[i]),
                                       PlayerOf(players, SmryOf(rd0[i]).steamid))
                    ELSE rd1[i] = rd0[i]]_vars

\* A response that returns some of the pending identities was reconciled
\* with a pending list that held one identity twice: entries went, and
\* entries stayed.
C28_Witness ==
    /\ Dispatched
    /\ last.ev.parsed = "summaries" /\ last.resp = "rest"
    /\ \E i, j \in 1..Len(last.sums0) :
          i # j /\ last.sums0[i].steamid = last.sums0[j].steamid
    /\ sata[last.c].st = "live"
    /\ sata[last.c].sums # <<>>
    /\ Len(sata[last.c].sums) < Len(last.sums0)

\* C29: enrichment terminates: a live context with a non-empty pending list
\* is released in the end, when every request in flight is answered.
C29_EnrichmentTerminates ==
    \A c \in Ctx :
        (sata[c].st = "live" /\ sata[c].sums # <<>>) ~> (sata[c].st = "freed")

\* The message types by the folded type string of a message object.
KnownTypes ==
    [saytext |-> "SAYTEXT", emote |-> "EMOTE", typing |-> "TYPING",
     leftconversation |-> "LEFT_CONV", personastate |-> "STATE",
     personarelationship |-> "RELATIONSHIP"]

Classified(je) == JHas(je, "type") /\ Fold(je.type) \in DOMAIN KnownTypes

FromOther(je, own) ==
    ~(JHas(je, "steamid_from") /\ own # NULLID /\ je.steamid_from = own)

Reversed(s) == [i \in 1..Len(s) |-> s[Len(s) + 1 - i]]

\* C30: a poll response that advances the cursor gives, in response order,
\* the messages that are not from the session's own identity and whose type
\* is one of the six known types in any letter case; the others are dropped
\* and set no error; the senders of the state and relationship messages, and
\* no others, are pending for enrichment.
C30_PollMessages ==
    [][(Parses("POLL") /\ api'.lmid # api.lmid /\ fault' = "none")
       => LET c    == last'.c
              json == Body(PollResponses, last'.resp)
              kept == SelectSeq(json.messages,
                                LAMBDA je : FromOther(je, api.steamid) /\ Classified(je))
              reg  == SelectSeq(kept, LAMBDA je : KnownTypes[Fold(je.type)]
                                                     \in {"STATE", "RELATIONSHIP"})
              rd   == IF sata'[c].st = "live" THEN sata'[c].rdata
                      ELSE last'.ev.cbrdata
          IN  /\ Len(rd) = Len(kept)
              /\ \A k \in 1..Len(kept) :
                    /\ rd[k].type = KnownTypes[Fold(kept[k].type)]
                    /\ rd[k].smry.steamid = steam_json_id(kept[k], "steamid_from")
              /\ sata'[c].st = "live" => sata'[c].err = NoErr
              /\ last'.ev.ncall = 1 => last'.ev.cberr = NoErr
              /\ reg = <<>> => last'.ev.ncall = 1 /\ sata'[c].st # "live"
              /\ reg # <<>>
                 => /\ sata'[c].st = "live"
                    /\ [k \in 1..Len(sata'[c].sums) |-> sata'[c].sums[k].steamid]
                          = Reversed([k \in 1..Len(reg) |->
                                         steam_json_id(reg[k], "steamid_from")])]_vars

\* The body "types" was parsed: of its six messages, the four with a known
\* type were handed to the callback, without error.
C30_Witness ==
    /\ Dispatched
    /\ last.type = "POLL" /\ last.ev.parsed = "POLL"
    /\ last.resp = "types"
    /\ last.ev.ncall = 1
    /\ last.ev.cberr = NoErr
    /\ Len(last.ev.cbrdata) = 4

\* C31: a poll response without a messages array, with a sectimeout of at
\* least STEAM_API_TIMEOUT and a messagelast other than the session's cursor
\* is parsed without fault: the cursor advances and the callback gets an
\* empty message list and no error.
C31_PollTotal ==
    [][(/\ last'.op = "dispatch" /\ last'.type = "POLL"
        /\ last'.st # "none"
        /\ sata[last'.c].err = NoErr /\ sata[last'.c].sums = <<>>
        /\ last'.resp \in {r.tag : r \in PollResponses}
        /\ LET json == Body(PollResponses, last'.resp) IN
              /\ ~steam_json_arr(json, "messages")
              /\ ~PollGate(json)
              /\ JHas(json, "sectimeout") /\ json.sectimeout >= STEAM_API_TIMEOUT
              /\ JHas(json, "messagelast") /\ json.messagelast # api.lmid)
       => /\ fault' = "none"
          /\ api'.lmid = Body(PollResponses, last'.resp).messagelast
          /\ last'.ev.ncall = 1
          /\ last'.ev.cberr = NoErr
          /\ last'.ev.cbrdata = <<>>]_vars

\* No entry of the list carries an absent identity.
AllIdentified(entries) ==
    \A i \in 1..Len(entries) : SmryOf(entries[i]).steamid # NULLID

\* The invariant of C32 for the call types in the set types.
NoAbsentIdentity(types) ==
    /\ \A c \in Ctx :
          (sata[c].st = "live" /\ sata[c].type \in types)
          => /\ AllIdentified(sata[c].rdata)
             /\ \A k \in 1..Len(sata[c].sums) : sata[c].sums[k].steamid # NULLID
    /\ (Dispatched /\ last.type \in types) => AllIdentified(last.ev.cbrdata)
    /\ \A id \in DOMAIN http.reqs :
          (http.reqs[id].kind = "SUMMARIES" /\ sata[http.reqs[id].data].type \in types)
          => \A k \in 1..Len(http.reqs[id].ids) : http.reqs[id].ids[k] # NULLID

\* C32: no result entry and no pending entry of a friends, friend-search or
\* poll call carries an absent identity, and no summaries request lists one.
C32_NoAbsentIdentity ==
    fault = "none" => NoAbsentIdentity({"FRIENDS", "FRIEND_SEARCH", "POLL"})

\* The auth response reports success; it holds an oauth document with a token.
AuthSucceeded(json) == steam_json_bool(json, "success")
AuthHasToken(json) ==
    /\ JHas(json, "oauth") /\ json.oauth.parse
    /\ JHas(json.oauth.json, "oauth_token")
AuthLacksToken(json) ==
    \/ ~JHas(json, "oauth")
    \/ json.oauth.parse /\ ~JHas(json.oauth.json, "oauth_token")

\* C33: a successful auth response with a token sets the session token,
\* invokes no callback and issues the redirect request on the same context,
\* whose type becomes AUTH_RDIR; the response to the redirect invokes the
\* callback, for the only time, and releases the context, without error only
\* if the session holds a sessionid, and otherwise with the AUTH error; a
\* successful auth response without oauth document or token fails with the
\* AUTH error in that dispatch and issues no redirect.
C33_AuthThenRedirect ==
    [][(last'.op = "dispatch" /\ last'.st # "none")
       => LET c  == last'.c
              ev == last'.ev
          IN  /\ (Parses("AUTH") /\ AuthSucceeded(Body(AuthResponses, last'.resp))
                  /\ AuthHasToken(Body(AuthResponses, last'.resp)))
                 => /\ api'.token = Body(AuthResponses, last'.resp).oauth.json.oauth_token
                    /\ ev.ncall = 0 /\ ev.nfree = 0
                    /\ calls'[c] = 0
                    /\ sata'[c].st = "live"
                    /\ sata'[c].type = "AUTH_RDIR"
                    /\ nreq'[c] = nreq[c] + 1
                    /\ sata'[c].req \in DOMAIN http'.reqs
                    /\ http'.reqs[sata'[c].req].kind = "AUTH_RDIR"
                    /\ http'.reqs[sata'[c].req].data = c
                    /\ http'.reqs[sata'[c].req].st = "flight"
              /\ (last'.type = "AUTH_RDIR" /\ last'.resp # "transport-error")
                 => /\ ev.ncall = 1 /\ ev.nfree = 1
                    /\ calls'[c] = 1
                    /\ sata'[c].st = "freed"
                    /\ ev.cberr = NoErr => api'.sessid # NULLSTR
                    /\ ev.cberr # NoErr
                       => ev.cberr.kind = "AUTH" /\ http'.sessionid = NULLSTR
              /\ (Parses("AUTH") /\ AuthSucceeded(Body(AuthResponses, last'.resp))
                  /\ AuthLacksToken(Body(AuthResponses, last'.resp)))
                 => /\ ev.ncall = 1
                    /\ ev.cberr.kind = "AUTH"
                    /\ nreq'[c] = nreq[c]
                    /\ sata'[c].st = "freed"
                    /\ api'.token = api.token]_vars

\* The redirect of an authentication was answered with a sessionid cookie:
\* the callback was invoked for the first time, without error, and the
\* session holds the token and the session id.
C33_Witness ==
    /\ Dispatched
    /\ last.type = "AUTH_RDIR" /\ last.resp = "cookie"
    /\ last.ev.ncall = 1 /\ last.ev.cberr = NoErr
    /\ calls[last.c] = 1
    /\ nreq[last.c] = 2
    /\ api.token = "T1" /\ api.sessid = "S1"

\* The context as the dispatcher finds it after the parse step of the
\* dispatch just made, where it tests the flags.
AfterParse ==
    LET c    == last'.c
        resp == CHOOSE r \in Responses(http.reqs[last'.req]) : r.tag = last'.resp
    IN  ApiCbParse(ApiCbJson(World(c, sata[c]), resp), resp).s

\* C34: where the dispatcher tests the flags, a context with the
\* suppress-callback flag has the keep-alive flag; a dispatch that suppresses
\* the callback does not release the context, and a dispatch that releases
\* the context has invoked its callback.
C34_SuppressedIsKept ==
    [][(last'.op = "dispatch" /\ last'.st # "none" /\ fault' = "none")
       => /\ "NOCALL" \in AfterParse.flags => "NOFREE" \in AfterParse.flags
          /\ "NOCALL" \in AfterParse.flags <=> last'.ev.ncall = 0
          /\ last'.ev.ncall = 0 => last'.ev.nfree = 0 /\ sata'[last'.c].st = "live"
          /\ last'.ev.nfree = 1 => last'.ev.ncall = 1]_vars

\* An auth response was dispatched with the callback suppressed: the context
\* is kept, for the redirect.
C34_Witness ==
    /\ Dispatched
    /\ last.type = "AUTH"
    /\ last.ev.ncall = 0 /\ last.ev.nfree = 0
    /\ sata[last.c].st = "live" /\ sata[last.c].type = "AUTH_RDIR"
    /\ calls[last.c] = 0 /\ frees[last.c] = 0

\* C35: a steam_api_message call with a type that is not sent leaves no
\* request behind, and its context has had its callback invoked once and is
\* released.
C35_UnsentMessageCompletes ==
    (last.op = "call" /\ last.type = "MESSAGE" /\ last.resp = "unsent")
    => /\ ReqsOf(last.c) = {}
       /\ calls[last.c] = 1
       /\ sata[last.c].st = "freed"

====
